---- MODULE Spec2Model ----
(***************************************************************************)
(* Route generation of RouteSimply: clustering (kMeansClustering),          *)
(* sequencing (nearestNeighborOrdering), distance estimation               *)
(* (calculateRouteDistance), the Google Routes adapter                      *)
(* (optimizeRouteWithGoogle), route assembly (generateRoutesForDay), the    *)
(* map link (generateGoogleMapsUrl) and POST /api/routes/generate.          *)
(*                                                                         *)
(* Numbers.  Every coordinate of the model lies on one meridian (the       *)
(* longitude of the fallback depot).  On a meridian dLon = 0, so the       *)
(* Haversine formula gives a = sin^2(dLat/2), c = |dLat| and the distance  *)
(* R*|dLat|: the arc length.  Latitude is counted in arcs of 25 m, so the  *)
(* distance of two latitudes is 25 m times their difference and is kept    *)
(* exactly, as a fraction <<numerator, denominator>> of such arcs          *)
(* (centroids are means, hence fractions).  Floating-point rounding of the *)
(* trigonometry is not modelled.                                           *)
(* Kilometres with one decimal are kept as an integer number of tenths.    *)
(* null and undefined are one value, NULL: the code only tests them with   *)
(* == null, != null and truthiness.                                        *)
(***************************************************************************)
EXTENDS Integers, Sequences, FiniteSets, TLC

NULL == -1

\* ----- bounds of the model ------------------------------------------------
\* longest location list given to the pure functions
MaxFnStops == 4
\* most locations of a day in a generation run
MaxStops == 2
\* greatest latitude of a location, in 25 m arcs
MaxLat == 2
\* greatest driver count of a generation run (the handler admits 1..10)
MaxDrivers == 5
\* most locations in storage when a generate request arrives
MaxReqLocs == 2
\* most stops of a stored route when a move-stop request arrives
MaxRouteStops == 2
\* most connections the WebSocket server accepts in a behaviour
MaxConns == 3
\* most WebSocket objects the hook creates in a behaviour
MaxSockets == 4

\* ----- program constants ---------------------------------------------------
\* 39.23128 degrees north in arcs of 25 m (39.23128 * pi/180 * 6371000 / 25)
FallbackLat == 174493
\* 76.58923 degrees west, in 1e-5 degrees: the one meridian of the model
FallbackLng == 7658923
maxIterations == 20
\* '3700 Pennington Ave Baltimore, MD 21226'.  A text is the sequence of its
\* parts: each reserved character (space, comma, "/") by itself, and each
\* run of letters and digits between them as one part.
FallbackAddress ==
    <<"3700", " ", "Pennington", " ", "Ave", " ", "Baltimore", ",", " ", "MD",
      " ", "21226">>
baseUrl == "https://www.google.com/maps/dir/"
\* the greatest driver count POST /api/routes/generate accepts
MaxDriverCount == 10
validDays ==
    <<"monday", "tuesday", "wednesday", "thursday", "friday", "saturday", "sunday">>

VARIABLES
    fn,            \* pure-function harness: the function applied, or "none"
    fnStops,       \* its argument: a list of locations / stops
    fnK,           \* its argument k
    fnOut,         \* its result
    dayLocations,  \* generateRoutesForDay: the locations of the day
    driverCount,   \* generateRoutesForDay: the number of drivers
    apiKey,        \* process.env.GOOGLE_MAPS_API_KEY is set
    warehouse,     \* the starting point the storage resolves, if any
    pc,            \* where generateRoutesForDay stands
    clusters,      \* the clusters of the run (clustering path)
    passes,        \* assignment passes kMeansClustering performed in the run
    ci,            \* 1-based number of the loop iteration
    candidate,     \* fullRouteForOptimization of the iteration
    googleResult,  \* what optimizeRouteWithGoogle returned to the iteration
    routes,        \* createdRoutes: the rows storage.createRoute returned
    calls,         \* history: the adapter call of each iteration (its outcome,
                   \* the provider's response, the number m of intermediates,
                   \* and whether the adapter returned a result)
    req,           \* POST /api/routes/generate: the request body and what the
                   \* storage holds when it arrives
    table,         \* the routes table, a row reduced to its date, its day
                   \* and whether it was there before the request
    handler,       \* where the request handler stands, its createdRoutes
                   \* count, its response status, and the day and date it
                   \* passes to generateRoutesForDay
    routeRows,     \* POST /api/routes/move-stop: the routes table, a row
                   \* reduced to its stopsJson and stopCount
    move,          \* the move-stop request, where its handler stands, the
                   \* table it found and its response status
    fleet,         \* assign / publish / unpublish: the routes table, a row
                   \* reduced to its status, driverId and date
    admin,         \* the publish-all, unpublish-all and unpublish-one
                   \* handlers in flight: what each has read and where it stands
    dateRoutes,    \* two concurrent generate requests: the rows of the
                   \* routes table for the scheduled date
    gens,          \* where each of the two requests stands
    clients,       \* WebSocket server: the clients map, userId -> client
    adminClients,  \* WebSocket server: the adminClients set
    conns,         \* the connections the server has accepted
    hook,          \* useWebSocket: the refs of the hook and whether the
                   \* component is mounted
    sockets        \* the WebSocket objects the hook has created

fnVars == <<fn, fnStops, fnK, fnOut>>

genVars == <<dayLocations, driverCount, apiKey, warehouse, pc, clusters, passes,
             ci, candidate, googleResult, routes, calls>>

reqVars == <<req, table, handler>>

moveVars == <<routeRows, move>>

statusVars == <<fleet, admin>>

concVars == <<dateRoutes, gens>>

wsVars == <<clients, adminClients, conns>>

hookVars == <<hook, sockets>>

opsVars == <<routeRows, move, fleet, admin, dateRoutes, gens, clients,
             adminClients, conns, hook, sockets>>

vars == <<fn, fnStops, fnK, fnOut, dayLocations, driverCount, apiKey, warehouse,
          pc, clusters, passes, ci, candidate, googleResult, routes, calls,
          req, table, handler, routeRows, move, fleet, admin, dateRoutes, gens,
          clients, adminClients, conns, hook, sockets>>

\* ----- generic helpers -----------------------------------------------------
Abs(x) == IF x < 0 THEN -x ELSE x

Min(a, b) == IF a < b THEN a ELSE b

Range(s) == {s[i] : i \in 1..Len(s)}

\* s without its element at (1-based) position i: Array.prototype.splice(i, 1)
RemoveAt(s, i) == SubSeq(s, 1, i - 1) \o SubSeq(s, i + 1, Len(s))

\* all sequences over S of length at most n
SeqsUpTo(S, n) == UNION {[1..m -> S] : m \in 0..n}

\* fractions <<n, d>>, d > 0
Frac(x) == <<x, 1>>

FracLess(a, b) == a[1] * b[2] < b[1] * a[2]

\* JavaScript `x || undefined`: 0 is falsy
OrUndefined(x) == IF x = NULL \/ x = 0 THEN NULL ELSE x

\* JavaScript `x || y` on numbers
OrElse(x, y) == IF x = NULL \/ x = 0 THEN y ELSE x

\* `x != null`
NotNull(x) == x # NULL

\* Math.round(n / d) for n >= 0, d > 0: halves round up
RoundDiv(n, d) == (2 * n + d) \div (2 * d)

\* Math.ceil(n / d) for n >= 0, d > 0
CeilDiv(n, d) == (n + d - 1) \div d

\* ----- calculateHaversineDistance ------------------------------------------
\* Arguments are fractions; the result is the meridian arc between the two
\* latitudes, a fraction of 25 m arcs.  lon1 = lon2 throughout the model.
calculateHaversineDistance(lat1, lon1, lat2, lon2) ==
    <<Abs(lat2[1] * lat1[2] - lat1[1] * lat2[2]), lat1[2] * lat2[2]>>

\* ----- kMeansClustering ----------------------------------------------------
validLocations_all(locations) == locations

\* locations.filter(loc => loc.lat != null && loc.lng != null)
validLocations(locations) ==
    SelectSeq(locations, LAMBDA loc : NotNull(loc.lat) /\ NotNull(loc.lng))

\* initialCentroids seeding every centroid from the first k stops
initialCentroids_firstK(valid, k) ==
    [c \in 1..k |-> [lat |-> Frac(valid[c].lat), lng |-> Frac(valid[c].lng)]]

\* centroid i (0-based) is seeded from valid[min(i * step, n - 1)]
initialCentroids(valid, k) ==
    LET n == Len(valid)
        step == n \div k
    IN [c \in 1..k |->
          LET loc == valid[Min((c - 1) * step, n - 1) + 1]
          IN [lat |-> Frac(loc.lat), lng |-> Frac(loc.lng)]]

\* the inner loop over centroids: the scan keeps the first minimum
\* (dist < minDist is strict and minDist starts at Infinity)
RECURSIVE closestScan(_, _, _, _, _)
closestScan(loc, centroids, c, best, minDist) ==
    IF c > Len(centroids) THEN best
    ELSE LET dist == calculateHaversineDistance(Frac(loc.lat), Frac(loc.lng),
                                                centroids[c].lat, centroids[c].lng)
         IN IF best = NULL \/ FracLess(dist, minDist)
            THEN closestScan(loc, centroids, c + 1, c - 1, dist)
            ELSE closestScan(loc, centroids, c + 1, best, minDist)

\* 0-based index of the nearest centroid
closestCentroid(loc, centroids) == closestScan(loc, centroids, 1, NULL, Frac(0))

\* for (const loc of validLocations) newAssignments.push(closestCentroid)
RECURSIVE assignAll(_, _, _)
assignAll(valid, centroids, i) ==
    IF i > Len(valid) THEN <<>>
    ELSE <<closestCentroid(valid[i], centroids)>> \o assignAll(valid, centroids, i + 1)

\* the sums and the count of cluster c (0-based) over the stops from i on
RECURSIVE clusterSums(_, _, _, _)
clusterSums(valid, assignments, c, i) ==
    IF i > Len(valid) THEN [lat |-> 0, lng |-> 0, count |-> 0]
    ELSE LET rest == clusterSums(valid, assignments, c, i + 1)
         IN IF assignments[i] = c
            THEN [lat |-> rest.lat + valid[i].lat,
                  lng |-> rest.lng + valid[i].lng,
                  count |-> rest.count + 1]
            ELSE rest

\* the mean of each cluster's members; a cluster without members keeps its
\* centroid
RECURSIVE updateCentroids(_, _, _, _)
updateCentroids(valid, assignments, centroids, c) ==
    IF c > Len(centroids) THEN <<>>
    ELSE LET sums == clusterSums(valid, assignments, c - 1, 1)
         IN <<IF sums.count > 0
              THEN [lat |-> <<sums.lat, sums.count>>,
                    lng |-> <<sums.lng, sums.count>>]
              ELSE centroids[c]>>
            \o updateCentroids(valid, assignments, centroids, c + 1)

\* the for (iter ...) loop; passes counts the assignment passes performed,
\* history lists the newAssignments of each pass, and centroids are the ones
\* the last pass measured against
RECURSIVE kMeansIterate(_, _, _, _, _, _)
kMeansIterate(valid, k, centroids, assignments, iter, history) ==
    IF iter >= maxIterations
    THEN [assignments |-> assignments, passes |-> iter, history |-> history,
          centroids |-> centroids]
    ELSE LET newAssignments == assignAll(valid, centroids, 1)
             hasConverged ==
                 \A i \in 1..Len(valid) : newAssignments[i] = assignments[i]
         IN IF hasConverged
            THEN [assignments |-> newAssignments, passes |-> iter + 1,
                  history |-> history \o <<newAssignments>>,
                  centroids |-> centroids]
            ELSE kMeansIterate(valid, k,
                               updateCentroids(valid, newAssignments, centroids, 1),
                               newAssignments, iter + 1,
                               history \o <<newAssignments>>)

\* clusters.filter(cluster => cluster.length > 0)
dropEmpty(groups) == SelectSeq(groups, LAMBDA cluster : Len(cluster) > 0)

\* for (i ...) clusters[assignments[i]].push(validLocations[i]), for cluster c
RECURSIVE groupOf(_, _, _, _)
groupOf(valid, assignments, c, i) ==
    IF i > Len(valid) THEN <<>>
    ELSE (IF assignments[i] = c THEN <<valid[i]>> ELSE <<>>)
         \o groupOf(valid, assignments, c, i + 1)

\* a return before the loop: no seeds, no pass
NoPasses(groups) ==
    [clusters |-> groups, passes |-> 0, seeds |-> <<>>, history |-> <<>>,
     centroids |-> <<>>]

\* kMeansRun without the k >= n shortcut: the iteration always runs
kMeansRun_noShortcut(locations, k) ==
    LET valid == validLocations(locations)
        n == Len(valid)
    IN IF n = 0 \/ k <= 0 THEN NoPasses(<<>>)
       ELSE LET seeds == initialCentroids(valid, k)
                run == kMeansIterate(valid, k, seeds, [i \in 1..n |-> 0], 0, <<>>)
                groups ==
                    [c \in 1..k |-> groupOf(valid, run.assignments, c - 1, 1)]
            IN [clusters |-> dropEmpty(groups), passes |-> run.passes,
                seeds |-> seeds, history |-> run.history,
                centroids |-> run.centroids]

\* the whole function, with the number of assignment passes it performed
kMeansRun(locations, k) ==
    LET valid == validLocations(locations)
        n == Len(valid)
    IN IF n = 0 \/ k <= 0 THEN NoPasses(<<>>)
       ELSE IF k >= n
       THEN NoPasses([i \in 1..n |-> <<valid[i]>>])
       ELSE LET seeds == initialCentroids(valid, k)
                run == kMeansIterate(valid, k, seeds, [i \in 1..n |-> 0], 0, <<>>)
                groups ==
                    [c \in 1..k |-> groupOf(valid, run.assignments, c - 1, 1)]
            IN [clusters |-> dropEmpty(groups), passes |-> run.passes,
                seeds |-> seeds, history |-> run.history,
                centroids |-> run.centroids]

kMeansClustering(locations, k) == kMeansRun(locations, k).clusters

\* nearestScan keeping the last stop at minimal distance (dist <= nearestDist)
RECURSIVE nearestScan_lastMin(_, _, _, _, _)
nearestScan_lastMin(current, remaining, i, nearestIdx, nearestDist) ==
    IF i > Len(remaining) THEN nearestIdx
    ELSE LET dist == calculateHaversineDistance(
                         Frac(current.lat), Frac(current.lng),
                         Frac(remaining[i].lat), Frac(remaining[i].lng))
         IN IF nearestIdx = NULL \/ ~FracLess(nearestDist, dist)
            THEN nearestScan_lastMin(current, remaining, i + 1, i, dist)
            ELSE nearestScan_lastMin(current, remaining, i + 1, nearestIdx,
                                     nearestDist)

\* ----- nearestNeighborOrdering ---------------------------------------------
\* the inner for loop: index (1-based) of the first remaining stop at minimal
\* distance from current
RECURSIVE nearestScan(_, _, _, _, _)
nearestScan(current, remaining, i, nearestIdx, nearestDist) ==
    IF i > Len(remaining) THEN nearestIdx
    ELSE LET dist == calculateHaversineDistance(
                         Frac(current.lat), Frac(current.lng),
                         Frac(remaining[i].lat), Frac(remaining[i].lng))
         IN IF nearestIdx = NULL \/ FracLess(dist, nearestDist)
            THEN nearestScan(current, remaining, i + 1, i, dist)
            ELSE nearestScan(current, remaining, i + 1, nearestIdx, nearestDist)

\* the while (remaining.length > 0) loop
RECURSIVE nearestWalk(_, _)
nearestWalk(result, remaining) ==
    IF Len(remaining) = 0 THEN result
    ELSE LET current == result[Len(result)]
             nearestIdx == nearestScan(current, remaining, 1, NULL, Frac(0))
         IN nearestWalk(Append(result, remaining[nearestIdx]),
                        RemoveAt(remaining, nearestIdx))

nearestNeighborOrdering(locations) ==
    IF Len(locations) <= 1 THEN locations
    ELSE nearestWalk(<<Head(locations)>>, Tail(locations))

\* ----- calculateRouteDistance ----------------------------------------------
\* sumLegs skipping the pairs that lack a coordinate: a partial sum
RECURSIVE sumLegs_skipMissing(_, _, _)
sumLegs_skipMissing(stops, i, total) ==
    IF i > Len(stops) - 1 THEN total
    ELSE LET current == stops[i]
             next == stops[i + 1]
         IN IF current.lat = NULL \/ current.lng = NULL
               \/ next.lat = NULL \/ next.lng = NULL
            THEN sumLegs_skipMissing(stops, i + 1, total)
            ELSE sumLegs_skipMissing(stops, i + 1,
                         total + calculateHaversineDistance(
                                     Frac(current.lat), Frac(current.lng),
                                     Frac(next.lat), Frac(next.lng))[1])

\* the for loop from pair i on; totalMeters is counted in 25 m arcs.
\* NULL when a pair lacks a coordinate.
RECURSIVE sumLegs(_, _, _)
sumLegs(stops, i, total) ==
    IF i > Len(stops) - 1 THEN total
    ELSE LET current == stops[i]
             next == stops[i + 1]
         IN IF current.lat = NULL \/ current.lng = NULL
               \/ next.lat = NULL \/ next.lng = NULL
            THEN NULL
            ELSE sumLegs(stops, i + 1,
                         total + calculateHaversineDistance(
                                     Frac(current.lat), Frac(current.lng),
                                     Frac(next.lat), Frac(next.lng))[1])

\* tenths of a kilometre: Math.round((totalMeters / 1000) * 10) / 10, with
\* totalMeters = 25 * arcs, is round(arcs / 4) tenths
calculateRouteDistance(stops) ==
    IF Len(stops) < 2 THEN 0
    ELSE LET arcs == sumLegs(stops, 1, 0)
         IN IF arcs = NULL THEN NULL ELSE RoundDiv(arcs, 4)

\* ----- inputs of the model --------------------------------------------------
\* coordinates a location can have: on the meridian at latitude 0..MaxLat
\* (0 is the equator: a number, and falsy), or lacking either coordinate
Coords ==
    {<<a, FallbackLng>> : a \in 0..MaxLat}
        \cup {<<NULL, FallbackLng>>, <<1, NULL>>, <<NULL, NULL>>}

\* An address is [defined, text], text a sequence of parts (reserved
\* characters and runs of letters and digits); a missing address (undefined)
\* has defined = FALSE.
\* the address of the location at position i: "<i> A/B"
AddressOf(i) ==
    [defined |-> TRUE,
     text |-> <<<<"1", "2", "3", "4", "5", "6", "7", "8">>[i], " ", "A", "/", "B">>]

NoAddress == [defined |-> FALSE, text |-> <<>>]

\* location lists of length n; the id of a location is its position
LocationLists(n) ==
    {[i \in 1..n |-> [id |-> i, address |-> AddressOf(i),
                      lat |-> c[i][1], lng |-> c[i][2]]] :
        c \in [1..n -> Coords]}

Located(loc) == NotNull(loc.lat) /\ NotNull(loc.lng)

\* ----- route stops -----------------------------------------------------------
\* A customer name is <<marker prefix, name>>.
\* createWarehouseStop of generateRoutesForDay
createWarehouseStop(wh, sequence, isStart) ==
    [locationId |-> IF wh.present THEN wh.id ELSE 0,
     address |-> IF wh.present /\ wh.address.text # <<>> THEN wh.address
                 ELSE [defined |-> TRUE, text |-> FallbackAddress],
     customerName |-> <<IF isStart THEN "Start: " ELSE "End: ",
                        IF wh.present /\ wh.name # "" THEN wh.name ELSE "Warehouse">>,
     lat |-> IF wh.present THEN OrElse(wh.lat, FallbackLat) ELSE FallbackLat,
     lng |-> IF wh.present THEN OrElse(wh.lng, FallbackLng) ELSE FallbackLng,
     sequence |-> sequence]

\* toDeliveryStops numbering from 1: no slot left for the start depot
toDeliveryStops_from1(locs) ==
    [i \in 1..Len(locs) |->
        [locationId |-> locs[i].id,
         address |-> locs[i].address,
         customerName |-> <<"", "customer">>,
         lat |-> OrUndefined(locs[i].lat),
         lng |-> OrUndefined(locs[i].lng),
         sequence |-> i]]

\* orderedLocations.map((loc, index) => ({...})): delivery stops from 2 on
toDeliveryStops(locs) ==
    [i \in 1..Len(locs) |->
        [locationId |-> locs[i].id,
         address |-> locs[i].address,
         customerName |-> <<"", "customer">>,
         lat |-> OrUndefined(locs[i].lat),
         lng |-> OrUndefined(locs[i].lng),
         sequence |-> i + 1]]

\* {...undefined, sequence}: what the spread of a missing array element gives
undefinedStop(sequence) ==
    [locationId |-> NULL, address |-> NoAddress,
     customerName |-> <<"", "undefined">>,
     lat |-> NULL, lng |-> NULL, sequence |-> sequence]

\* deliveryStops.forEach((stop, idx) => { stop.sequence = idx + 2 })
renumberFrom2(stops) ==
    [i \in 1..Len(stops) |-> [stops[i] EXCEPT !.sequence = i + 1]]

\* stops.slice(1, -1)
sliceInner(stops) ==
    IF Len(stops) <= 2 THEN <<>> ELSE SubSeq(stops, 2, Len(stops) - 1)

\* [finalWarehouseStart, ...deliveryStops, finalWarehouseEnd]
bookend(wh, deliveryStops) ==
    <<createWarehouseStop(wh, 1, TRUE)>> \o deliveryStops
        \o <<createWarehouseStop(wh, Len(deliveryStops) + 2, FALSE)>>

\* ----- generateGoogleMapsUrl ---------------------------------------------------
\* encodeURIComponent leaving every character as it is
encodeURIComponent_raw(address) ==
    IF ~address.defined THEN <<"undefined">>
    ELSE address.text

\* encodeURIComponent on the texts of the model: space, "/" and "," are
\* escaped (one element per escape), runs of letters and digits are kept; a
\* missing address is converted to the string "undefined"
encodeURIComponent(address) ==
    IF ~address.defined THEN <<"undefined">>
    ELSE [i \in 1..Len(address.text) |->
            CASE address.text[i] = " " -> "%20"
              [] address.text[i] = "/" -> "%2F"
              [] address.text[i] = "," -> "%2C"
              [] OTHER -> address.text[i]]

\* encodedAddresses.join("/") from position i on
RECURSIVE joinSlash(_, _)
joinSlash(stops, i) ==
    IF i > Len(stops) THEN <<>>
    ELSE encodeURIComponent(stops[i].address)
            \o (IF i < Len(stops) THEN <<"/">> ELSE <<>>)
            \o joinSlash(stops, i + 1)

\* the link: baseUrl, then the parts of the joined addresses
generateGoogleMapsUrl(stops) ==
    IF Len(stops) = 0 THEN <<>> ELSE <<baseUrl>> \o joinSlash(stops, 1)

\* ----- optimizeRouteWithGoogle -----------------------------------------------
NoResult ==
    [ok |-> FALSE, optimizedStops |-> <<>>, totalDistanceKm |-> NULL,
     estimatedTimeMinutes |-> NULL]

\* adapterPrecheck without the test that every stop has coordinates
adapterPrecheck_noCoordsTest(key, stops) ==
    IF ~key THEN "noKey"
    ELSE IF Len(stops) < 2 THEN "tooFew"
    ELSE "call"

\* the checks before the request: "call" when the request is made
adapterPrecheck(key, stops) ==
    IF ~key THEN "noKey"
    ELSE IF Len(stops) < 2 THEN "tooFew"
    ELSE IF Len(SelectSeq(stops, LAMBDA s : NotNull(s.lat) /\ NotNull(s.lng)))
              # Len(stops)
    THEN "noCoords"
    ELSE "call"

\* no request: the adapter returned before the fetch
NoRequestBody ==
    [origin |-> <<NULL, NULL>>, destination |-> <<NULL, NULL>>,
     optimizeWaypointOrder |-> FALSE, intermediates |-> <<>>]

\* requestBody asking for waypoint optimization whatever the list
requestBody_alwaysOptimize(stops) ==
    LET intermediates == sliceInner(stops)
    IN [origin |-> <<stops[1].lat, stops[1].lng>>,
        destination |-> <<stops[Len(stops)].lat, stops[Len(stops)].lng>>,
        optimizeWaypointOrder |-> TRUE,
        intermediates |-> [i \in 1..Len(intermediates) |->
                              <<intermediates[i].lat, intermediates[i].lng>>]]

\* the body of the computeRoutes request; `intermediates` is left out of the
\* body when there are none
requestBody(stops) ==
    LET intermediates == sliceInner(stops)
    IN [origin |-> <<stops[1].lat, stops[1].lng>>,
        destination |-> <<stops[Len(stops)].lat, stops[Len(stops)].lng>>,
        optimizeWaypointOrder |-> Len(intermediates) > 0,
        intermediates |-> [i \in 1..Len(intermediates) |->
                              <<intermediates[i].lat, intermediates[i].lng>>]]

\* the optimizedIntermediateWaypointIndex of a response: absent, a value that
\* is no array, or an array of indices
NoIndex == [present |-> FALSE, array |-> FALSE, list |-> <<>>]

NotAnArray == [present |-> TRUE, array |-> FALSE, list |-> <<>>]

IndexArray(list) == [present |-> TRUE, array |-> TRUE, list |-> list]

\* what the provider can answer to a request with m intermediates: the
\* request is rejected (network error), the body is no JSON, the status is
\* not ok, there are no routes, or there is a first route.  The index array
\* is any list of at most m indices from 0..m (m itself is out of range).
RouteObjects(m) ==
    {[distanceMeters |-> 1234, duration |-> 61, index |-> ix] :
        ix \in {NoIndex, NotAnArray} \cup {IndexArray(l) : l \in SeqsUpTo(0..m, m)}}
    \cup {[distanceMeters |-> d[1], duration |-> d[2],
           index |-> IndexArray([i \in 1..m |-> i - 1])] :
             d \in {<<NULL, 61>>, <<1234, NULL>>, <<NULL, NULL>>}}

Responses(m) ==
    {[kind |-> "reject", ok |-> FALSE, routes |-> <<>>],
     [kind |-> "notJson", ok |-> TRUE, routes |-> <<>>],
     [kind |-> "json", ok |-> FALSE, routes |-> <<>>],
     [kind |-> "json", ok |-> TRUE, routes |-> <<>>]}
    \cup {[kind |-> "json", ok |-> TRUE, routes |-> <<r>>] : r \in RouteObjects(m)}

\* optimizedStops.map((stop, index) => ({...stop, sequence: index + 1}))
renumberFrom1(stops) ==
    [i \in 1..Len(stops) |-> [stops[i] EXCEPT !.sequence = i]]

\* pickIntermediates ignoring the provider's order
pickIntermediates_asGiven(intermediates, list) == intermediates

\* route.optimizedIntermediateWaypointIndex.map(idx => intermediates[idx]);
\* an index outside the array gives undefined
pickIntermediates(intermediates, list) ==
    [i \in 1..Len(list) |->
        IF list[i] + 1 \in 1..Len(intermediates)
        THEN intermediates[list[i] + 1]
        ELSE undefinedStop(NULL)]

\* the body of the try block from the response on: what it returns, or that
\* it threw
tryBody(stops, resp) ==
    LET origin == stops[1]
        destination == stops[Len(stops)]
        intermediates == sliceInner(stops)
        route == resp.routes[1]
        distanceMeters == OrElse(route.distanceMeters, 0)
        totalDistanceKm == RoundDiv(distanceMeters, 100)
        estimatedTimeMinutes ==
            IF route.duration = NULL THEN 0 ELSE CeilDiv(route.duration, 60)
        optimizedStops ==
            IF Len(intermediates) > 0 /\ route.index.present
            THEN <<origin>> \o pickIntermediates(intermediates, route.index.list)
                     \o <<destination>>
            ELSE stops
    IN IF resp.kind \in {"reject", "notJson"}
       THEN [threw |-> TRUE, value |-> NoResult]
       ELSE IF ~resp.ok THEN [threw |-> FALSE, value |-> NoResult]
       ELSE IF Len(resp.routes) = 0 THEN [threw |-> FALSE, value |-> NoResult]
       ELSE IF Len(intermediates) > 0 /\ route.index.present /\ ~route.index.array
       THEN [threw |-> TRUE, value |-> NoResult]
       ELSE [threw |-> FALSE,
             value |-> [ok |-> TRUE,
                        optimizedStops |-> renumberFrom1(optimizedStops),
                        totalDistanceKm |-> totalDistanceKm,
                        estimatedTimeMinutes |-> estimatedTimeMinutes]]

\* catch (error) { return null }
catchAll(outcome) ==
    IF outcome.threw THEN [threw |-> FALSE, value |-> NoResult] ELSE outcome

\* the adapter from the response on
optimizeAfterFetch(stops, resp) == catchAll(tryBody(stops, resp))

\* ----- generateRoutesForDay ---------------------------------------------------
\* the starting point of the storage: none (the hard-coded fallback is used),
\* or a configured work location
Warehouses ==
    {[present |-> FALSE, id |-> 0, name |-> "", address |-> NoAddress,
      lat |-> NULL, lng |-> NULL],
     [present |-> TRUE, id |-> 0, name |-> "Depot",
      address |-> [defined |-> TRUE, text |-> <<"9", " ", "D", ",", "E">>],
      lat |-> 2, lng |-> FallbackLng]}

NoResponse == [kind |-> "none", ok |-> FALSE, routes |-> <<>>]

\* locationsWithCoords.length === dayLocations.length && dayLocations.length > 0
hasCoordinates(locs) ==
    Len(SelectSeq(locs, Located)) = Len(locs) /\ Len(locs) > 0

\* stopsPerDriver rounding down
stopsPerDriver_floor(locs, k) == Len(locs) \div k

\* Math.ceil(dayLocations.length / driverCount)
stopsPerDriver(locs, k) == CeilDiv(Len(locs), k)

\* dayLocations.slice(startIndex, endIndex) of round-robin iteration i (1-based)
blockOf(locs, k, i) ==
    LET startIndex == (i - 1) * stopsPerDriver(locs, k)
        endIndex == Min(startIndex + stopsPerDriver(locs, k), Len(locs))
    IN SubSeq(locs, startIndex + 1, endIndex)

\* the loop has an iteration i (1-based): the for..of over the clusters, or
\* the for (i < driverCount) loop with its break
hasIteration(locs, k, groups, i) ==
    IF hasCoordinates(locs)
    THEN i <= Len(groups)
    ELSE i - 1 < k /\ (i - 1) * stopsPerDriver(locs, k) < Len(locs)

\* the routeLocations of the round-robin loop, iteration by iteration from i
RECURSIVE roundRobinBlocks(_, _, _)
roundRobinBlocks(locs, k, i) ==
    IF i - 1 < k /\ (i - 1) * stopsPerDriver(locs, k) < Len(locs)
    THEN <<blockOf(locs, k, i)>> \o roundRobinBlocks(locs, k, i + 1)
    ELSE <<>>

\* the locations of iteration i in the order their delivery stops are built
iterationLocations(locs, k, groups, i) ==
    IF hasCoordinates(locs)
    THEN nearestNeighborOrdering(groups[i])
    ELSE blockOf(locs, k, i)

\* deliveryStops.every(s => s.lat != null && s.lng != null) && warehouseStart...
stopsHaveCoords(full) ==
    /\ \A i \in 2..(Len(full) - 1) : NotNull(full[i].lat) /\ NotNull(full[i].lng)
    /\ NotNull(full[1].lat) /\ NotNull(full[1].lng)

\* estimateTime with 5 minutes per stop when the distance is unknown
estimateTime_flat5(totalDistance, n) ==
    IF totalDistance # NULL /\ totalDistance # 0
    THEN RoundDiv(3 * totalDistance, 20) + n * 5
    ELSE n * 5

\* totalDistance ? Math.round((totalDistance / 40) * 60) + n * 5 : n * 15,
\* totalDistance in tenths of a kilometre: (t / 10 / 40) * 60 = 3t / 20
estimateTime(totalDistance, n) ==
    IF totalDistance # NULL /\ totalDistance # 0
    THEN RoundDiv(3 * totalDistance, 20) + n * 5
    ELSE n * 15

\* the delivery stops after the adapter returned: optimized.slice(1, -1)
\* renumbered, or the ones the candidate list was built from
finalDeliveryStops(full, result) ==
    IF result.ok THEN renumberFrom2(sliceInner(result.optimizedStops))
    ELSE sliceInner(full)

\* buildRoute measuring the delivery stops only, without the depot legs
buildRoute_noDepotLegs(locs, wh, full, result) ==
    LET deliveryStops == finalDeliveryStops(full, result)
        stops == bookend(wh, deliveryStops)
        n == Len(deliveryStops)
        localDistance ==
            IF hasCoordinates(locs) \/ stopsHaveCoords(full)
            THEN calculateRouteDistance(deliveryStops)
            ELSE NULL
    IN [stopsJson |-> stops,
        routeLink |-> generateGoogleMapsUrl(stops),
        totalDistance |-> IF result.ok THEN result.totalDistanceKm ELSE localDistance,
        estimatedTime |->
            IF result.ok THEN result.estimatedTimeMinutes
            ELSE IF hasCoordinates(locs) \/ stopsHaveCoords(full)
            THEN estimateTime(localDistance, n)
            ELSE n * 15,
        status |-> "draft",
        stopCount |-> Len(stops),
        driverId |-> NULL,
        driverName |-> NULL]

\* buildRoute counting the delivery stops only
buildRoute_countDeliveries(locs, wh, full, result) ==
    LET deliveryStops == finalDeliveryStops(full, result)
        stops == bookend(wh, deliveryStops)
        n == Len(deliveryStops)
        localDistance ==
            IF hasCoordinates(locs) \/ stopsHaveCoords(full)
            THEN calculateRouteDistance(stops)
            ELSE NULL
    IN [stopsJson |-> stops,
        routeLink |-> generateGoogleMapsUrl(stops),
        totalDistance |-> IF result.ok THEN result.totalDistanceKm ELSE localDistance,
        estimatedTime |->
            IF result.ok THEN result.estimatedTimeMinutes
            ELSE IF hasCoordinates(locs) \/ stopsHaveCoords(full)
            THEN estimateTime(localDistance, n)
            ELSE n * 15,
        status |-> "draft",
        stopCount |-> n,
        driverId |-> NULL,
        driverName |-> NULL]

\* the route the iteration hands to storage.createRoute
buildRoute(locs, wh, full, result) ==
    LET deliveryStops == finalDeliveryStops(full, result)
        stops == bookend(wh, deliveryStops)
        n == Len(deliveryStops)
        localDistance ==
            IF hasCoordinates(locs) \/ stopsHaveCoords(full)
            THEN calculateRouteDistance(stops)
            ELSE NULL
    IN [stopsJson |-> stops,
        routeLink |-> generateGoogleMapsUrl(stops),
        totalDistance |-> IF result.ok THEN result.totalDistanceKm ELSE localDistance,
        estimatedTime |->
            IF result.ok THEN result.estimatedTimeMinutes
            ELSE IF hasCoordinates(locs) \/ stopsHaveCoords(full)
            THEN estimateTime(localDistance, n)
            ELSE n * 15,
        status |-> "draft",
        stopCount |-> Len(stops),
        driverId |-> NULL,
        driverName |-> NULL]

\* no request: generateRoutesForDay or a pure function is applied directly
NoRequest ==
    [driverCount |-> 0, dayOfWeek |-> "", scheduledDate |-> "",
     allLocations |-> <<>>, excluded |-> {}, stored |-> <<>>]

\* the row storage.createRoute inserts: date is scheduledDate, or today's
\* date when none is given
createdRow(dayOfWeek, scheduledDate) ==
    [date |-> IF scheduledDate # "" THEN scheduledDate ELSE "today",
     dayOfWeek |-> dayOfWeek, old |-> FALSE]

GenIdle ==
    /\ clusters = <<>> /\ passes = 0 /\ ci = 0 /\ candidate = <<>>
    /\ googleResult = NoResult /\ routes = <<>> /\ calls = <<>>

\* the route editing handlers, the status handlers, the concurrent requests,
\* the WebSocket server and the hook are not part of the behaviour
MoveIdle == routeRows = <<>> /\ move = <<>>

StatusIdle == fleet = <<>> /\ admin = <<>>

ConcIdle == dateRoutes = <<>> /\ gens = <<>>

WsIdle == clients = <<>> /\ adminClients = {} /\ conns = <<>>

HookIdle == hook = <<>> /\ sockets = <<>>

OpsIdle == MoveIdle /\ StatusIdle /\ ConcIdle /\ WsIdle /\ HookIdle

\* generateRoutesForDay called on any bounded list; the driver count is 1, 2
\* or the greatest one (every count of at least the list's length takes the
\* same path)
GenInit ==
    /\ fn = "off" /\ fnStops = <<>> /\ fnK = 0 /\ fnOut = <<>>
    /\ dayLocations \in UNION {LocationLists(n) : n \in 1..MaxStops}
    /\ driverCount \in {1, 2, MaxDrivers}
    /\ apiKey \in BOOLEAN
    /\ warehouse \in Warehouses
    /\ pc = "idle"
    /\ GenIdle
    /\ OpsIdle
    /\ req = NoRequest /\ table = <<>>
    /\ handler = [pc |-> "direct", day |-> 0, created |-> 0, status |-> 0,
                  targetDay |-> "monday", date |-> ""]

\* generateRoutesForDay up to its loop: the path is chosen and, on the
\* clustering path, the clusters are computed
StartGeneration ==
    /\ pc = "idle"
    /\ LET run == IF hasCoordinates(dayLocations)
                  THEN kMeansRun(dayLocations, driverCount)
                  ELSE NoPasses(<<>>)
       IN /\ clusters' = run.clusters
          /\ passes' = run.passes
          /\ ci' = 1
          /\ pc' = IF hasIteration(dayLocations, driverCount, run.clusters, 1)
                   THEN "loop" ELSE "done"
    /\ UNCHANGED <<dayLocations, driverCount, apiKey, warehouse, candidate,
                   googleResult, routes, calls>>
    /\ UNCHANGED fnVars
    /\ UNCHANGED opsVars
    /\ UNCHANGED reqVars

\* one iteration up to the adapter's request: the stops are ordered and
\* bookended, and optimizeRouteWithGoogle is called (on the round-robin path
\* only if the block has coordinates); it returns null at once when a
\* precondition fails and otherwise sends the request
PrepareCluster ==
    /\ pc = "loop"
    /\ LET locs == iterationLocations(dayLocations, driverCount, clusters, ci)
           full == bookend(warehouse, toDeliveryStops(locs))
           pre == IF hasCoordinates(dayLocations) \/ stopsHaveCoords(full)
                  THEN adapterPrecheck(apiKey, full)
                  ELSE "notCalled"
       IN IF Len(locs) = 0
          THEN \* if (cluster.length === 0) continue
               /\ ci' = ci + 1
               /\ pc' = IF hasIteration(dayLocations, driverCount, clusters, ci + 1)
                        THEN "loop" ELSE "done"
               /\ UNCHANGED <<candidate, googleResult, calls>>
          ELSE /\ candidate' = full
               /\ googleResult' = NoResult
               /\ calls' = Append(calls, [outcome |-> pre, resp |-> NoResponse,
                                           m |-> Len(full) - 2, available |-> FALSE])
               /\ pc' = IF pre = "call" THEN "fetch" ELSE "assemble"
               /\ ci' = ci
    /\ UNCHANGED <<dayLocations, driverCount, apiKey, warehouse, clusters, passes,
                   routes>>
    /\ UNCHANGED fnVars
    /\ UNCHANGED opsVars
    /\ UNCHANGED reqVars

\* the fetch settles: the provider answers (or the request fails) and the
\* adapter returns; an exception leaving the adapter would end the run
FetchSettles ==
    /\ pc = "fetch"
    /\ \E resp \in Responses(Len(candidate) - 2) :
         LET outcome == optimizeAfterFetch(candidate, resp)
         IN /\ googleResult' = outcome.value
            /\ pc' = IF outcome.threw THEN "raised" ELSE "assemble"
            /\ calls' = [calls EXCEPT ![Len(calls)] =
                            [outcome |-> "called", resp |-> resp,
                             m |-> Len(candidate) - 2,
                             available |-> outcome.value.ok]]
    /\ UNCHANGED <<dayLocations, driverCount, apiKey, warehouse, clusters, passes,
                   ci, candidate, routes>>
    /\ UNCHANGED fnVars
    /\ UNCHANGED opsVars
    /\ UNCHANGED reqVars

\* the provider never answers: the request carries no timeout and no abort
\* signal, so nothing settles the fetch
ProviderHangs ==
    /\ pc = "fetch"
    /\ pc' = "hung"
    /\ UNCHANGED <<dayLocations, driverCount, apiKey, warehouse, clusters, passes,
                   ci, candidate, googleResult, routes, calls>>
    /\ UNCHANGED fnVars
    /\ UNCHANGED opsVars
    /\ UNCHANGED reqVars

\* StoreRoute keeping only the route of this iteration
StoreRoute_replace ==
    /\ pc = "assemble"
    /\ routes' = <<buildRoute(dayLocations, warehouse, candidate, googleResult)>>
    /\ ci' = ci + 1
    /\ pc' = IF hasIteration(dayLocations, driverCount, clusters, ci + 1)
             THEN "loop" ELSE "done"
    /\ UNCHANGED <<dayLocations, driverCount, apiKey, warehouse, clusters, passes,
                   candidate, googleResult, calls>>
    /\ UNCHANGED fnVars
    /\ UNCHANGED opsVars
    /\ table' = Append(table, createdRow(handler.targetDay, handler.date))
    /\ UNCHANGED <<req, handler>>

\* the rest of the iteration: final stops, metrics, storage.createRoute
StoreRoute ==
    /\ pc = "assemble"
    /\ routes' = Append(routes,
                        buildRoute(dayLocations, warehouse, candidate, googleResult))
    /\ ci' = ci + 1
    /\ pc' = IF hasIteration(dayLocations, driverCount, clusters, ci + 1)
             THEN "loop" ELSE "done"
    /\ UNCHANGED <<dayLocations, driverCount, apiKey, warehouse, clusters, passes,
                   candidate, googleResult, calls>>
    /\ UNCHANGED fnVars
    /\ UNCHANGED opsVars
    /\ table' = Append(table, createdRow(handler.targetDay, handler.date))
    /\ UNCHANGED <<req, handler>>

\* ----- POST /api/routes/generate ------------------------------------------------
\* String.prototype.toLowerCase on the day names of the model
toLowerCase(d) == IF d = "Monday" THEN "monday" ELSE d

\* allLocations.filter(loc => loc.daysOfWeek && loc.daysOfWeek.includes(day));
\* a null daysOfWeek is the empty set here: neither includes a day
scheduledFor(locs, day) == SelectSeq(locs, LAMBDA loc : day \in loc.daysOfWeek)

\* dayLocations.filter(loc => !excludedLocationIds.includes(loc.id))
withoutExcluded(locs, excludedLocationIds) ==
    SelectSeq(locs, LAMBDA loc : loc.id \notin excludedLocationIds)

\* the first day of validDays from position d on that has locations, 8 if none
nextDayWith(locs, d) ==
    IF \E e \in d..Len(validDays) : Len(scheduledFor(locs, validDays[e])) > 0
    THEN CHOOSE e \in d..Len(validDays) :
            /\ Len(scheduledFor(locs, validDays[e])) > 0
            /\ \A f \in d..(e - 1) : Len(scheduledFor(locs, validDays[f])) = 0
    ELSE Len(validDays) + 1

\* storage.clearRoutesByDate / clearRoutesByDay
clearRoutesByDate(rows, date) == SelectSeq(rows, LAMBDA row : row.date # date)

clearRoutesByDay(rows, dayOfWeek) ==
    SelectSeq(rows, LAMBDA row : row.dayOfWeek # dayOfWeek)

\* the locations a location list of storage can hold: located or not, with
\* no day, monday or tuesday assigned
StoredLocations(n) ==
    {[i \in 1..n |-> [id |-> i, address |-> AddressOf(i),
                      lat |-> c[i][1], lng |-> c[i][2], daysOfWeek |-> c[i][3]]] :
        c \in [1..n -> {<<1, FallbackLng, {}>>, <<1, FallbackLng, {"monday"}>>,
                        <<1, FallbackLng, {"tuesday"}>>, <<NULL, NULL, {}>>,
                        <<NULL, NULL, {"monday"}>>, <<NULL, NULL, {"tuesday"}>>}]}

\* a generate request arrives: its body (driverCount missing or 0, in range,
\* or above the limit; dayOfWeek "" when missing; scheduledDate "" when
\* missing), the locations and exclusions of storage, and the routes stored
ReqInit ==
    /\ fn = "off" /\ fnStops = <<>> /\ fnK = 0 /\ fnOut = <<>>
    /\ dayLocations = <<>> /\ driverCount = 0 /\ apiKey = FALSE
    /\ warehouse \in {w \in Warehouses : ~w.present}
    /\ pc = "wait"
    /\ GenIdle
    /\ OpsIdle
    /\ req \in [driverCount : {0, 1, 2, MaxDriverCount + 1},
                dayOfWeek : {"", "Monday", "funday"},
                scheduledDate : {"", "d1"},
                allLocations : UNION {StoredLocations(n) : n \in 0..MaxReqLocs},
                excluded : {{}, {1}},
                stored : {<<>>, <<[date |-> "d1", dayOfWeek |-> "monday", old |-> TRUE],
                                  [date |-> "d0", dayOfWeek |-> "tuesday", old |-> TRUE]>>}]
    /\ table = req.stored
    /\ handler = [pc |-> "received", day |-> 0, created |-> 0, status |-> 0,
                  targetDay |-> "", date |-> ""]

\* the handler answers with a status
respond(status) ==
    /\ handler' = [handler EXCEPT !.pc = "responded", !.status = status]
    /\ UNCHANGED <<dayLocations, driverCount, pc, clusters, passes, ci, candidate,
                   googleResult, routes, calls>>

\* the handler calls generateRoutesForDay(locs, driverCount, day, date)
callGenerate(locs, day, date, dayIndex, created) ==
    /\ handler' = [handler EXCEPT !.pc = "generating", !.day = dayIndex,
                                  !.targetDay = day, !.date = date,
                                  !.created = created]
    /\ dayLocations' = locs
    /\ driverCount' = req.driverCount
    /\ pc' = "idle"
    /\ clusters' = <<>> /\ passes' = 0 /\ ci' = 0 /\ candidate' = <<>>
    /\ googleResult' = NoResult /\ routes' = <<>> /\ calls' = <<>>

\* the handler from the request to its first generateRoutesForDay call, or to
\* the response that rejects the request
ReceiveGenerate ==
    /\ handler.pc = "received"
    /\ LET targetDay == toLowerCase(req.dayOfWeek)
           onDay == scheduledFor(req.allLocations, targetDay)
           included == withoutExcluded(onDay, req.excluded)
           first == nextDayWith(req.allLocations, 1)
       IN IF req.driverCount = 0 \/ req.driverCount < 1
             \/ req.driverCount > MaxDriverCount
          THEN respond(400) /\ UNCHANGED table
          ELSE IF req.dayOfWeek # "" /\ targetDay \notin Range(validDays)
          THEN respond(400) /\ UNCHANGED table
          ELSE IF Len(req.allLocations) = 0
          THEN respond(400) /\ UNCHANGED table
          ELSE IF targetDay # "" /\ req.scheduledDate # ""
          THEN IF Len(onDay) = 0 THEN respond(400) /\ UNCHANGED table
               ELSE IF Len(included) = 0 THEN respond(400) /\ UNCHANGED table
               ELSE /\ table' = clearRoutesByDate(table, req.scheduledDate)
                    /\ callGenerate(included, targetDay, req.scheduledDate, 0, 0)
          ELSE IF targetDay # ""
          THEN IF Len(onDay) = 0 THEN respond(400) /\ UNCHANGED table
               ELSE /\ table' = clearRoutesByDay(table, targetDay)
                    /\ callGenerate(onDay, targetDay, "", 0, 0)
          ELSE /\ table' = <<>>
               /\ IF first > Len(validDays)
                  THEN respond(400)
                  ELSE callGenerate(scheduledFor(req.allLocations, validDays[first]),
                                    validDays[first], "", first, 0)
    /\ UNCHANGED <<req, apiKey, warehouse>>
    /\ UNCHANGED fnVars
    /\ UNCHANGED opsVars

\* generateRoutesForDay returned: its routes are pushed to createdRoutes; the
\* loop over the days goes on with the next day that has locations, or the
\* handler answers
GenerationReturns ==
    /\ handler.pc = "generating" /\ pc = "done"
    /\ LET created == handler.created + Len(routes)
           following == nextDayWith(req.allLocations, handler.day + 1)
       IN IF handler.day > 0 /\ following <= Len(validDays)
          THEN callGenerate(scheduledFor(req.allLocations, validDays[following]),
                            validDays[following], "", following, created)
          ELSE /\ handler' = [handler EXCEPT !.pc = "responded", !.created = created,
                                             !.status = IF handler.day > 0 /\ created = 0
                                                        THEN 400 ELSE 201]
               /\ UNCHANGED <<dayLocations, driverCount, pc, clusters, passes, ci,
                              candidate, googleResult, routes, calls>>
    /\ UNCHANGED <<req, table, apiKey, warehouse>>
    /\ UNCHANGED fnVars
    /\ UNCHANGED opsVars

\* ----- the pure functions, applied to every bounded input --------------------
FnInit ==
    /\ fn = "none"
    /\ fnStops \in UNION {LocationLists(n) : n \in 0..MaxFnStops}
    /\ fnK \in 0..MaxDrivers
    /\ fnOut = <<>>
    /\ dayLocations = <<>> /\ driverCount = 0 /\ apiKey = FALSE
    /\ warehouse \in {w \in Warehouses : ~w.present}
    /\ pc = "off"
    /\ GenIdle
    /\ OpsIdle
    /\ req = NoRequest /\ table = <<>>
    /\ handler = [pc |-> "off", day |-> 0, created |-> 0, status |-> 0,
                  targetDay |-> "", date |-> ""]

CallKMeans ==
    /\ fn = "none"
    /\ fn' = "kMeansClustering"
    /\ fnOut' = kMeansRun(fnStops, fnK)
    /\ UNCHANGED <<fnStops, fnK>>
    /\ UNCHANGED opsVars
    /\ UNCHANGED genVars
    /\ UNCHANGED reqVars

\* the sequencer is only ever given located stops (a cluster)
CallNearestNeighbor ==
    /\ fn = "none"
    /\ \A i \in 1..Len(fnStops) : Located(fnStops[i])
    /\ fn' = "nearestNeighborOrdering"
    /\ fnOut' = nearestNeighborOrdering(fnStops)
    /\ UNCHANGED <<fnStops, fnK>>
    /\ UNCHANGED opsVars
    /\ UNCHANGED genVars
    /\ UNCHANGED reqVars

CallRouteDistance ==
    /\ fn = "none"
    /\ fn' = "calculateRouteDistance"
    /\ fnOut' = calculateRouteDistance(fnStops)
    /\ UNCHANGED <<fnStops, fnK>>
    /\ UNCHANGED opsVars
    /\ UNCHANGED genVars
    /\ UNCHANGED reqVars

\* a list of route stops with the coordinates of the locations, as given
StopsOf(locs) ==
    [i \in 1..Len(locs) |->
        [locationId |-> locs[i].id, address |-> locs[i].address,
         customerName |-> <<"", "customer">>,
         lat |-> locs[i].lat, lng |-> locs[i].lng, sequence |-> i]]

\* optimizeRouteWithGoogle on any list of stops, with or without an API key,
\* and any answer of the provider (k is no argument of it)
CallAdapter ==
    /\ fn = "none" /\ fnK = 0
    /\ fn' = "optimizeRouteWithGoogle"
    /\ \E key \in BOOLEAN :
         LET stops == StopsOf(fnStops)
             pre == adapterPrecheck(key, stops)
         IN IF pre = "call"
            THEN \E resp \in Responses(Len(stops) - 2) :
                    fnOut' = [key |-> key, sent |-> TRUE,
                              request |-> requestBody(stops), resp |-> resp,
                              result |-> optimizeAfterFetch(stops, resp).value]
            ELSE fnOut' = [key |-> key, sent |-> FALSE,
                           request |-> NoRequestBody, resp |-> NoResponse,
                           result |-> NoResult]
    /\ UNCHANGED <<fnStops, fnK>>
    /\ UNCHANGED opsVars
    /\ UNCHANGED genVars
    /\ UNCHANGED reqVars

\* the round-robin division of generateRoutesForDay on any list that is not
\* fully located, for any driver count
CallRoundRobin ==
    /\ fn = "none" /\ fnK >= 1
    /\ ~hasCoordinates(fnStops)
    /\ fn' = "roundRobin"
    /\ fnOut' = roundRobinBlocks(fnStops, fnK, 1)
    /\ UNCHANGED <<fnStops, fnK>>
    /\ UNCHANGED opsVars
    /\ UNCHANGED genVars
    /\ UNCHANGED reqVars

\* ----- specifications ---------------------------------------------------------
Init == FnInit \/ GenInit \/ ReqInit

Next ==
    \/ CallKMeans
    \/ CallNearestNeighbor
    \/ CallRouteDistance
    \/ CallAdapter
    \/ CallRoundRobin
    \/ StartGeneration
    \/ PrepareCluster
    \/ FetchSettles
    \/ ProviderHangs
    \/ StoreRoute
    \/ ReceiveGenerate
    \/ GenerationReturns

Spec == Init /\ [][Next]_vars

\* A generation run alone, under fairness: every step the run or the provider
\* can take is eventually taken.  A provider that never answers leaves the
\* run nothing to take: the request carries no timeout.
GenNext ==
    \/ StartGeneration
    \/ PrepareCluster
    \/ FetchSettles
    \/ ProviderHangs
    \/ StoreRoute

LiveSpec == GenInit /\ [][GenNext]_vars /\ WF_vars(GenNext)

\* ----- POST /api/routes/move-stop ------------------------------------------
\* the generation core, its handler and the harness are not part of the
\* behaviour
CoreIdle ==
    /\ fn = "off" /\ fnStops = <<>> /\ fnK = 0 /\ fnOut = <<>>
    /\ dayLocations = <<>> /\ driverCount = 0 /\ apiKey = FALSE
    /\ warehouse = CHOOSE w \in Warehouses : ~w.present
    /\ pc = "off"
    /\ GenIdle
    /\ req = NoRequest /\ table = <<>>
    /\ handler = [pc |-> "off", day |-> 0, created |-> 0, status |-> 0,
                  targetDay |-> "", date |-> ""]

\* the two routes of the table, and an id no row has
RouteIds == {"r1", "r2"}

NoRouteId == "r9"

\* the id of stop j of route r as generation stored it (a fresh UUID per stop)
StopIdOf(r, j) ==
    IF r = "r1" THEN <<"a1", "a2", "a3", "a4">>[j] ELSE <<"b1", "b2", "b3", "b4">>[j]

NoStopId == "zz"

\* a stored route of n stops, numbered 1..n as generation leaves them
rowOf(r, n) ==
    [stopsJson |-> [j \in 1..n |-> [id |-> StopIdOf(r, j), sequence |-> j]],
     stopCount |-> n]

\* storage.getRoute(id): the row, or undefined (present = FALSE)
getRoute(rows, id) ==
    IF id \in DOMAIN rows
    THEN [present |-> TRUE, stopsJson |-> rows[id].stopsJson]
    ELSE [present |-> FALSE, stopsJson |-> <<>>]

\* storage.updateRoute(id, data): the fields of data replace the row's
updateStops(rows, id, stops) ==
    IF id \in DOMAIN rows
    THEN [rows EXCEPT ![id] = [stopsJson |-> stops, stopCount |-> Len(stops)]]
    ELSE rows

\* stops.findIndex(s => s.id === stopId), 0-based, -1 if there is none
findIndex(stops, stopId) ==
    IF \E i \in 1..Len(stops) : stops[i].id = stopId
    THEN (CHOOSE i \in 1..Len(stops) :
             /\ stops[i].id = stopId
             /\ \A j \in 1..(i - 1) : stops[j].id # stopId) - 1
    ELSE -1

\* stops.forEach((stop, index) => { stop.sequence = index + 1 })
resequence(stops) == [i \in 1..Len(stops) |-> [stops[i] EXCEPT !.sequence = i]]

\* toStops.splice(insertIndex, 0, movedStop), insertIndex 0-based
insertAt(stops, insertIndex, stop) ==
    SubSeq(stops, 1, insertIndex) \o <<stop>>
        \o SubSeq(stops, insertIndex + 1, Len(stops))

\* the target list: the moved stop inserted into the target route as read
toStopsOf(toRoute, movedStop, newSequence) ==
    LET toStops == toRoute.stopsJson
        insertIndex == Min(newSequence - 1, Len(toStops))
    IN resequence(insertAt(toStops, insertIndex,
                           [movedStop EXCEPT !.sequence = newSequence]))

NoMove == [stopId |-> "", fromRouteId |-> "", toRouteId |-> "", newSequence |-> 0]

MoveInit ==
    /\ CoreIdle
    /\ \E n1 \in 0..MaxRouteStops, n2 \in 0..MaxRouteStops :
          routeRows = [r \in RouteIds |->
                          IF r = "r1" THEN rowOf(r, n1) ELSE rowOf(r, n2)]
    /\ move = [pc |-> "wait", body |-> NoMove, status |-> 0, found |-> routeRows]
    /\ StatusIdle /\ ConcIdle /\ WsIdle /\ HookIdle

\* the handler answers with a status and leaves the table alone
moveResponds(body, status) ==
    /\ move' = [move EXCEPT !.pc = "responded", !.body = body, !.status = status]
    /\ UNCHANGED routeRows

\* the whole handler: validation, the two reads, the splice out of the source
\* list, the insertion into the target list, the two writes in order
MoveStop ==
    /\ move.pc = "wait"
    /\ \E stopId \in {StopIdOf(r, j) : r \in RouteIds, j \in 1..MaxRouteStops}
                        \cup {NoStopId},
          fromRouteId \in RouteIds \cup {NoRouteId},
          toRouteId \in RouteIds \cup {NoRouteId},
          newSequence \in 0..(MaxRouteStops + 2) :
          LET body == [stopId |-> stopId, fromRouteId |-> fromRouteId,
                       toRouteId |-> toRouteId, newSequence |-> newSequence]
              fromRoute == getRoute(routeRows, fromRouteId)
              toRoute == getRoute(routeRows, toRouteId)
          IN IF newSequence < 1 THEN moveResponds(body, 400)
             ELSE IF ~fromRoute.present \/ ~toRoute.present
             THEN moveResponds(body, 404)
             ELSE LET stopIndex == findIndex(fromRoute.stopsJson, stopId)
                  IN IF stopIndex = -1 THEN moveResponds(body, 404)
                     ELSE LET movedStop == fromRoute.stopsJson[stopIndex + 1]
                              fromStops ==
                                  resequence(RemoveAt(fromRoute.stopsJson,
                                                      stopIndex + 1))
                              toStops == toStopsOf(toRoute, movedStop, newSequence)
                          IN /\ routeRows' =
                                   updateStops(
                                       updateStops(routeRows, fromRouteId, fromStops),
                                       toRouteId, toStops)
                             /\ move' = [move EXCEPT !.pc = "responded",
                                                     !.body = body,
                                                     !.status = 200]
    /\ UNCHANGED <<fnVars, genVars, reqVars>>
    /\ UNCHANGED <<statusVars, concVars, wsVars, hookVars>>

MoveNext == MoveStop

MoveSpec == MoveInit /\ [][MoveNext]_vars

\* ----- assign, publish, unpublish -----------------------------------------------
\* the driver a request names: none (null, undefined or "") or a user id
DriverIds == {1}

\* routes.date of the two rows
dateOf(r) == IF r = "r1" THEN "d1" ELSE "d2"

\* storage.getAllRoutes(): the rows as read, ordered by date descending
getAllRoutes(rows) ==
    [i \in 1..2 |->
        LET r == <<"r2", "r1">>[i]
        IN [id |-> r, status |-> rows[r].status, date |-> rows[r].date]]

\* storage.updateRoute(id, { status })
updateStatus(rows, id, status) ==
    IF id \in DOMAIN rows THEN [rows EXCEPT ![id].status = status] ELSE rows

\* the first row at or after position i of a snapshot that the loop writes to:
\* its status is the one looked for and, if a date was given, its date is
\* that date; 0 if there is none
nextToWrite(snapshot, i, status, date) ==
    LET hits == {j \in i..Len(snapshot) :
                    /\ snapshot[j].status = status
                    /\ ~(date # "" /\ snapshot[j].date # date)}
    IN IF hits = {} THEN 0 ELSE CHOOSE j \in hits : \A h \in hits : j <= h

NoLoop == [pc |-> "idle", snapshot |-> <<>>, i |-> 0, date |-> ""]

\* routes as generation stores them: drafts without a driver
StatusInit ==
    /\ CoreIdle
    /\ fleet = [r \in RouteIds |->
                   [status |-> "draft", driverId |-> NULL, date |-> dateOf(r)]]
    /\ admin = [publish |-> NoLoop, unpublish |-> NoLoop,
                unpublishOne |-> [pc |-> "idle", id |-> ""]]
    /\ MoveIdle /\ ConcIdle /\ WsIdle /\ HookIdle

StatusFrame ==
    /\ UNCHANGED <<fnVars, genVars, reqVars>>
    /\ UNCHANGED <<moveVars, concVars, wsVars, hookVars>>

\* PATCH /api/routes/:id/assign: one write, no read
AssignRoute ==
    /\ \E id \in RouteIds \cup {NoRouteId}, driverId \in DriverIds \cup {NULL} :
          LET newStatus == IF driverId # NULL THEN "assigned" ELSE "draft"
          IN fleet' = IF id \in DOMAIN fleet
                      THEN [fleet EXCEPT ![id].driverId = driverId,
                                         ![id].status = newStatus]
                      ELSE fleet
    /\ UNCHANGED admin
    /\ StatusFrame

\* POST /api/routes/publish up to its first write: the rows are read
PublishRead ==
    /\ admin.publish.pc = "idle"
    /\ admin' = [admin EXCEPT !.publish =
                    [pc |-> "loop", snapshot |-> getAllRoutes(fleet), i |-> 1,
                     date |-> ""]]
    /\ UNCHANGED fleet
    /\ StatusFrame

\* the loop up to and including its next write, or to the response
PublishWrite ==
    /\ admin.publish.pc = "loop"
    /\ LET p == admin.publish
           j == nextToWrite(p.snapshot, p.i, "assigned", "")
       IN IF j = 0
          THEN /\ admin' = [admin EXCEPT !.publish = NoLoop]
               /\ UNCHANGED fleet
          ELSE /\ fleet' = updateStatus(fleet, p.snapshot[j].id, "published")
               /\ admin' = [admin EXCEPT !.publish.i = j + 1]
    /\ StatusFrame

\* POST /api/routes/unpublish up to its first write, with or without ?date=
UnpublishRead ==
    /\ admin.unpublish.pc = "idle"
    /\ \E date \in {"", "d1"} :
          admin' = [admin EXCEPT !.unpublish =
                       [pc |-> "loop", snapshot |-> getAllRoutes(fleet), i |-> 1,
                        date |-> date]]
    /\ UNCHANGED fleet
    /\ StatusFrame

UnpublishWrite ==
    /\ admin.unpublish.pc = "loop"
    /\ LET p == admin.unpublish
           j == nextToWrite(p.snapshot, p.i, "published", p.date)
       IN IF j = 0
          THEN /\ admin' = [admin EXCEPT !.unpublish = NoLoop]
               /\ UNCHANGED fleet
          ELSE /\ fleet' = updateStatus(fleet, p.snapshot[j].id, "assigned")
               /\ admin' = [admin EXCEPT !.unpublish.i = j + 1]
    /\ StatusFrame

\* PATCH /api/routes/:id/unpublish up to its write: 404 and 400 end it
UnpublishOneRead ==
    /\ admin.unpublishOne.pc = "idle"
    /\ \E routeId \in RouteIds \cup {NoRouteId} :
          admin' = IF routeId \in DOMAIN fleet /\ fleet[routeId].status = "published"
                   THEN [admin EXCEPT !.unpublishOne =
                                         [pc |-> "write", id |-> routeId]]
                   ELSE admin
    /\ UNCHANGED fleet
    /\ StatusFrame

UnpublishOneWrite ==
    /\ admin.unpublishOne.pc = "write"
    /\ fleet' = updateStatus(fleet, admin.unpublishOne.id, "assigned")
    /\ admin' = [admin EXCEPT !.unpublishOne = [pc |-> "idle", id |-> ""]]
    /\ StatusFrame

StatusNext ==
    \/ AssignRoute
    \/ PublishRead
    \/ PublishWrite
    \/ UnpublishRead
    \/ UnpublishWrite
    \/ UnpublishOneRead
    \/ UnpublishOneWrite

StatusSpec == StatusInit /\ [][StatusNext]_vars

\* ----- two concurrent POST /api/routes/generate for one date -----------------
\* the scheduled date both requests name, and its weekday
ConcDate == "d1"

\* the location ids of the delivery stops of every route one
\* generateRoutesForDay call creates for the list, in creation order, when the
\* adapter returns no result (no API key)
plannedDeliveries(locs, k) ==
    LET groups == IF hasCoordinates(locs) THEN kMeansClustering(locs, k)
                  ELSE roundRobinBlocks(locs, k, 1)
    IN [i \in 1..Len(groups) |->
           LET ordered == IF hasCoordinates(locs)
                          THEN nearestNeighborOrdering(groups[i])
                          ELSE groups[i]
               deliveryStops == toDeliveryStops(ordered)
           IN [j \in 1..Len(deliveryStops) |-> deliveryStops[j].locationId]]

\* the row storage.createRoute inserts, reduced to its date, the request that
\* created it (0: stored before both) and the location ids of its deliveries
routeRow(date, owner, deliveries) ==
    [date |-> date, owner |-> owner, deliveries |-> deliveries]

\* both requests are valid and name the same date; the eligible stops of the
\* date and each request's driver count vary, and the table may hold a route
\* of the date from an earlier generation
ConcInit ==
    /\ CoreIdle
    /\ \E locs \in UNION {LocationLists(n) : n \in 1..MaxStops},
          k1 \in {1, 2}, k2 \in {1, 2} :
          gens = [locations |-> locs,
                  procs |-> [p \in {1, 2} |->
                                [pc |-> "received",
                                 driverCount |-> IF p = 1 THEN k1 ELSE k2,
                                 plan |-> <<>>, created |-> 0]]]
    /\ dateRoutes \in {<<>>, <<routeRow(ConcDate, 0, <<1>>)>>}
    /\ MoveIdle /\ StatusIdle /\ WsIdle /\ HookIdle

ConcFrame ==
    /\ UNCHANGED <<fnVars, genVars, reqVars>>
    /\ UNCHANGED <<moveVars, statusVars, wsVars, hookVars>>

\* request p up to the end of its clearRoutesByDate, and generateRoutesForDay
\* up to its loop: the rows of the date are deleted and the clusters computed
GenerateClears(p) ==
    /\ gens.procs[p].pc = "received"
    /\ dateRoutes' = SelectSeq(dateRoutes, LAMBDA row : row.date # ConcDate)
    /\ gens' = [gens EXCEPT
                  !.procs[p].pc = "inserting",
                  !.procs[p].plan =
                      plannedDeliveries(gens.locations, gens.procs[p].driverCount)]
    /\ ConcFrame

\* one iteration of request p's loop: the adapter returns null and
\* storage.createRoute inserts the route
GenerateInserts(p) ==
    /\ gens.procs[p].pc = "inserting"
    /\ gens.procs[p].created < Len(gens.procs[p].plan)
    /\ dateRoutes' = Append(dateRoutes,
                        routeRow(ConcDate, p,
                                 gens.procs[p].plan[gens.procs[p].created + 1]))
    /\ gens' = [gens EXCEPT !.procs[p].created = @ + 1]
    /\ ConcFrame

\* request p answers 201 with its created routes
GenerateResponds(p) ==
    /\ gens.procs[p].pc = "inserting"
    /\ gens.procs[p].created = Len(gens.procs[p].plan)
    /\ gens' = [gens EXCEPT !.procs[p].pc = "responded"]
    /\ UNCHANGED dateRoutes
    /\ ConcFrame

ConcNext ==
    \/ \E p \in {1, 2} : GenerateClears(p)
    \/ \E p \in {1, 2} : GenerateInserts(p)
    \/ \E p \in {1, 2} : GenerateResponds(p)

ConcSpec == ConcInit /\ [][ConcNext]_vars

\* ----- WebSocket server (setupWebSocket) ----------------------------------------
\* the users a valid token names: JWTPayload reduced to userId and role
WsUsers == {[userId |-> "u1", role |-> "driver"], [userId |-> "a1", role |-> "admin"]}

\* the token of a connection request: missing, one verifyToken rejects, or
\* one it accepts for a user
NoToken == [kind |-> "none", user |-> [userId |-> "", role |-> ""]]

Tokens ==
    {NoToken, [kind |-> "invalid", user |-> [userId |-> "", role |-> ""]]}
        \cup {[kind |-> "valid", user |-> u] : u \in WsUsers}

\* clients.set(userId, client): client is the number of the connection
mapSet(map, userId, client) ==
    [u \in DOMAIN map \cup {userId} |-> IF u = userId THEN client ELSE map[u]]

\* clients.delete(userId)
mapDelete(map, userId) == [u \in DOMAIN map \ {userId} |-> map[u]]

\* the server is set up and no connection has been made.  A connection is
\* its user, the state of its socket ("open"; "closing" once close() or
\* terminate() was called or the peer went away and the close event is still
\* to come; "closed" after the close event), whether the handlers of an
\* authenticated connection are attached, and its client object's isAlive
WsInit ==
    /\ CoreIdle
    /\ clients = <<>> /\ adminClients = {} /\ conns = <<>>
    /\ MoveIdle /\ StatusIdle /\ ConcIdle /\ HookIdle

WsFrame ==
    /\ UNCHANGED <<fnVars, genVars, reqVars>>
    /\ UNCHANGED <<moveVars, statusVars, concVars, hookVars>>

\* wss.on("connection"): a missing or rejected token closes the socket with
\* 4001; otherwise the client is registered under its userId
Connection ==
    /\ Len(conns) < MaxConns
    /\ \E token \in Tokens :
          IF token.kind # "valid"
          THEN /\ conns' = Append(conns, [user |-> token.user, state |-> "closing",
                                          authenticated |-> FALSE,
                                          isAlive |-> FALSE])
               /\ UNCHANGED <<clients, adminClients>>
          ELSE /\ conns' = Append(conns, [user |-> token.user, state |-> "open",
                                          authenticated |-> TRUE,
                                          isAlive |-> TRUE])
               /\ clients' = mapSet(clients, token.user.userId, Len(conns) + 1)
               /\ adminClients' = IF token.user.role = "admin"
                                  THEN adminClients \cup {token.user.userId}
                                  ELSE adminClients
    /\ WsFrame

\* the peer closes an open connection or the network drops it: the close
\* event is to come
PeerCloses ==
    /\ \E c \in 1..Len(conns) :
          /\ conns[c].state = "open"
          /\ conns' = [conns EXCEPT ![c].state = "closing"]
    /\ UNCHANGED <<clients, adminClients>>
    /\ WsFrame

\* ws.on("close") of an authenticated connection; a connection closed with
\* 4001 has no handler
CloseEvent ==
    /\ \E c \in 1..Len(conns) :
          /\ conns[c].state = "closing"
          /\ conns' = [conns EXCEPT ![c].state = "closed"]
          /\ IF conns[c].authenticated
             THEN /\ clients' = mapDelete(clients, conns[c].user.userId)
                  /\ adminClients' = adminClients \ {conns[c].user.userId}
             ELSE UNCHANGED <<clients, adminClients>>
    /\ WsFrame

\* ws.on("pong")
Pong ==
    /\ \E c \in 1..Len(conns) :
          /\ conns[c].state = "open" /\ conns[c].authenticated
          /\ ~conns[c].isAlive
          /\ conns' = [conns EXCEPT ![c].isAlive = TRUE]
    /\ UNCHANGED <<clients, adminClients>>
    /\ WsFrame

\* one tick of heartbeatInterval over the whole clients map: a client that
\* did not answer the last ping is terminated and deleted, the others are
\* marked and pinged
Heartbeat ==
    /\ DOMAIN clients # {}
    /\ LET dead == {u \in DOMAIN clients : ~conns[clients[u]].isAlive}
           deadConns == {clients[u] : u \in dead}
           pinged == {clients[u] : u \in DOMAIN clients \ dead}
       IN /\ conns' = [c \in 1..Len(conns) |->
                          IF c \in deadConns
                          THEN [conns[c] EXCEPT
                                   !.state = IF @ = "closed" THEN @ ELSE "closing"]
                          ELSE IF c \in pinged
                          THEN [conns[c] EXCEPT !.isAlive = FALSE]
                          ELSE conns[c]]
          /\ clients' = [u \in DOMAIN clients \ dead |-> clients[u]]
          /\ adminClients' = adminClients \ dead
    /\ WsFrame

\* client && client.ws.readyState === WebSocket.OPEN of sendToClient
canSendTo(userId) ==
    userId \in DOMAIN clients /\ conns[clients[userId]].state = "open"

WsNext ==
    \/ Connection
    \/ PeerCloses
    \/ CloseEvent
    \/ Pong
    \/ Heartbeat

WsSpec == WsInit /\ [][WsNext]_vars

\* ----- useWebSocket (client hook) -------------------------------------------------
\* 2 ** n
RECURSIVE twoTo(_)
twoTo(n) == IF n = 0 THEN 1 ELSE 2 * twoTo(n - 1)

\* Math.min(1000 * 2 ** reconnectAttempts.current, 30000)
reconnectDelay(attempts) ==
    Min(1000 * twoTo(attempts), 30000)

\* the hook is rendered and its effect has not run: no socket, no timer.
\* wsRef is the number of a socket or 0 (null); reconnectTimeoutRef is the id
\* the last setTimeout returned or 0 (undefined); timers are the timeouts set
\* and neither fired nor cleared, each with its delay; token tells whether
\* getAuthToken() returns one
HookInit ==
    /\ CoreIdle
    /\ \E token \in BOOLEAN :
          hook = [phase |-> "rendered", token |-> token, wsRef |-> 0,
                  isConnected |-> FALSE, reconnectTimeoutRef |-> 0,
                  reconnectAttempts |-> 0, timers |-> {}, timersSet |-> 0]
    /\ sockets = <<>>
    /\ MoveIdle /\ StatusIdle /\ ConcIdle /\ WsIdle

HookFrame ==
    /\ UNCHANGED <<fnVars, genVars, reqVars>>
    /\ UNCHANGED <<moveVars, statusVars, concVars, wsVars>>

\* connect() on hook state h: without a token nothing happens; otherwise a
\* WebSocket is created and wsRef points to it
connect(h) ==
    IF ~h.token THEN /\ hook' = h
                     /\ UNCHANGED sockets
    ELSE /\ sockets' = Append(sockets, "connecting")
         /\ hook' = [h EXCEPT !.wsRef = Len(sockets) + 1]

\* connect() can run: the sockets of a behaviour are bounded
canConnect == ~hook.token \/ Len(sockets) < MaxSockets

\* the effect runs after the first render
Mount ==
    /\ hook.phase = "rendered"
    /\ canConnect
    /\ connect([hook EXCEPT !.phase = "mounted"])
    /\ HookFrame

\* ws.onopen
OnOpen ==
    /\ \E s \in 1..Len(sockets) :
          /\ sockets[s] = "connecting"
          /\ sockets' = [sockets EXCEPT ![s] = "open"]
    /\ hook' = [hook EXCEPT !.isConnected = TRUE, !.reconnectAttempts = 0]
    /\ HookFrame

\* the connection fails or the server closes it (ws.onerror calls ws.close()):
\* the close event is to come
SocketFails ==
    /\ \E s \in 1..Len(sockets) :
          /\ sockets[s] \in {"connecting", "open"}
          /\ sockets' = [sockets EXCEPT ![s] = "closing"]
    /\ UNCHANGED hook
    /\ HookFrame

\* ws.onclose: the ref is cleared and a reconnect is scheduled
OnClose ==
    /\ \E s \in 1..Len(sockets) :
          /\ sockets[s] = "closing"
          /\ sockets' = [sockets EXCEPT ![s] = "closed"]
    /\ LET id == hook.timersSet + 1
           delay == reconnectDelay(hook.reconnectAttempts)
       IN hook' = [hook EXCEPT !.isConnected = FALSE,
                               !.wsRef = 0,
                               !.reconnectAttempts = @ + 1,
                               !.reconnectTimeoutRef = id,
                               !.timers = @ \cup {<<id, delay>>},
                               !.timersSet = id]
    /\ HookFrame

\* a pending timeout fires: connect()
TimerFires ==
    /\ canConnect
    /\ \E t \in hook.timers :
          connect([hook EXCEPT !.timers = @ \ {t}])
    /\ HookFrame

\* the cleanup of the effect (the component unmounts)
Cleanup ==
    /\ hook.phase = "mounted"
    /\ hook' = [hook EXCEPT
                   !.phase = "unmounted",
                   !.timers = IF hook.reconnectTimeoutRef # 0
                              THEN {t \in @ : t[1] # hook.reconnectTimeoutRef}
                              ELSE @]
    /\ sockets' = IF hook.wsRef # 0 /\ sockets[hook.wsRef] \in {"connecting", "open"}
                  THEN [sockets EXCEPT ![hook.wsRef] = "closing"]
                  ELSE sockets
    /\ HookFrame

\* the user logs in or out: getAuthToken() returns a token from now on, or
\* none
TokenChanges ==
    /\ hook' = [hook EXCEPT !.token = ~@]
    /\ UNCHANGED sockets
    /\ HookFrame

HookNext ==
    \/ Mount
    \/ TokenChanges
    \/ OnOpen
    \/ SocketFails
    \/ OnClose
    \/ TimerFires
    \/ Cleanup

\* the browser's event loop delivers every close event and fires every timeout
HookSpec ==
    HookInit /\ [][HookNext]_vars /\ WF_vars(OnClose) /\ WF_vars(TimerFires)

\* ----- claims -------------------------------------------------------------------
RECURSIVE Flatten(_)
Flatten(groups) ==
    IF Len(groups) = 0 THEN <<>> ELSE Head(groups) \o Flatten(Tail(groups))

Count(seq, x) == Cardinality({i \in 1..Len(seq) : seq[i] = x})

LocatedOf(locs) == SelectSeq(locs, Located)

\* C1: for every list of stops and every k >= 1, each stop of the input that
\* has both coordinates is in exactly one returned cluster, exactly once, and
\* every member of a cluster is a stop of the input that has both coordinates.
C1_Partition ==
    (fn = "kMeansClustering" /\ fnK >= 1) =>
        LET all == Flatten(fnOut.clusters)
        IN /\ \A i \in 1..Len(fnStops) :
                Located(fnStops[i]) => Count(all, fnStops[i]) = 1
           /\ \A j \in 1..Len(all) :
                \E i \in 1..Len(fnStops) : fnStops[i] = all[j] /\ Located(all[j])

\* k < n with a stop that lacks a coordinate: the iteration ran more than
\* once and returned two clusters
C1_Witness ==
    /\ fn = "kMeansClustering" /\ fnK = 2
    /\ Len(fnStops) = 4 /\ Len(LocatedOf(fnStops)) = 3
    /\ fnOut.passes >= 2 /\ Len(fnOut.clusters) = 2

\* C2: kMeansClustering returns at most k clusters, none empty; a generation
\* run never stores more than driverCount routes, nor a route without a
\* delivery stop between its two depot stops.
C2_AtMostKNonEmpty ==
    /\ (fn = "kMeansClustering" /\ fnK >= 1) =>
          /\ Len(fnOut.clusters) <= fnK
          /\ \A c \in 1..Len(fnOut.clusters) : Len(fnOut.clusters[c]) > 0
    /\ Len(routes) <= driverCount
    /\ \A r \in 1..Len(routes) : Len(routes[r].stopsJson) - 2 >= 1

\* C3: with n >= 1 located stops and k >= n, kMeansClustering performs no
\* assignment pass and returns the n located stops as n singleton clusters in
\* input order; a generation run over n located stops with driverCount >= n
\* ends with exactly n routes (2 stops, 5 drivers: 2 routes).
C3_SingletonShortcut ==
    /\ (fn = "kMeansClustering" /\ Len(LocatedOf(fnStops)) >= 1
          /\ fnK >= Len(LocatedOf(fnStops))) =>
          /\ fnOut.passes = 0
          /\ fnOut.clusters =
                [i \in 1..Len(LocatedOf(fnStops)) |-> <<LocatedOf(fnStops)[i]>>]
    /\ (pc \in {"loop", "fetch", "hung", "assemble", "done"}
          /\ LocatedOf(dayLocations) = dayLocations
          /\ driverCount >= Len(dayLocations)) =>
          /\ passes = 0
          /\ clusters = [i \in 1..Len(dayLocations) |-> <<dayLocations[i]>>]
          /\ (pc = "done" => Len(routes) = Len(dayLocations))

\* 2 located stops and 5 drivers: the run is done with 2 routes
C3_Witness ==
    /\ pc = "done" /\ driverCount = 5 /\ Len(dayLocations) = 2
    /\ LocatedOf(dayLocations) = dayLocations
    /\ Len(clusters) = 2 /\ Len(routes) = 2

\* C4: the stops of every stored route carry the sequence numbers 1, 2, ...,
\* count in list order.
C4_SequenceContiguous ==
    \A r \in 1..Len(routes) :
        \A j \in 1..Len(routes[r].stopsJson) : routes[r].stopsJson[j].sequence = j

\* a stored route whose two deliveries the provider swapped
C4_Witness ==
    /\ Len(routes) >= 1 /\ calls[1].available
    /\ calls[1].resp.routes[1].index.list = <<1, 0>>
    /\ Len(routes[1].stopsJson) = 4
    /\ routes[1].stopsJson[2].locationId # candidate[2].locationId

\* C5: every stored route starts with a "Start:" depot stop and ends with an
\* "End:" depot stop, and every stop between them is a delivery stop of a
\* location of the input.
C5_DepotBookends ==
    \A r \in 1..Len(routes) :
        LET stops == routes[r].stopsJson
        IN /\ Len(stops) >= 2
           /\ stops[1].customerName[1] = "Start: "
           /\ stops[Len(stops)].customerName[1] = "End: "
           /\ \A j \in 2..(Len(stops) - 1) :
                /\ stops[j].customerName[1] = ""
                /\ \E i \in 1..Len(dayLocations) :
                     dayLocations[i].id = stops[j].locationId

\* the index list of a response is valid for m intermediates: a permutation
\* of 0..m-1
ValidIndex(ix, m) ==
    m = 0 \/ (/\ ix.present /\ ix.array /\ Len(ix.list) = m
              /\ Range(ix.list) = 0..(m - 1))

\* the failure kinds of an adapter call: no API key, network error,
\* non-success status, malformed body (no JSON, or a first route without
\* distance, duration or a valid index list), no routes
ProviderFailed(call) ==
    \/ call.outcome = "noKey"
    \/ /\ call.outcome = "called"
       /\ \/ call.resp.kind \in {"reject", "notJson"}
          \/ ~call.resp.ok
          \/ Len(call.resp.routes) = 0
          \/ /\ Len(call.resp.routes) > 0
             /\ \/ call.resp.routes[1].distanceMeters = NULL
                \/ call.resp.routes[1].duration = NULL
                \/ ~ValidIndex(call.resp.routes[1].index, call.m)

\* C6: optimizeRouteWithGoogle never throws, and returns null on every
\* failure kind.
C6_UnavailableOnFailure ==
    /\ pc # "raised"
    /\ (pc = "assemble" /\ ProviderFailed(calls[Len(calls)])) => ~googleResult.ok

\* the number of non-empty clusters or blocks of the run
ExpectedRoutes ==
    IF LocatedOf(dayLocations) = dayLocations /\ Len(dayLocations) > 0
    THEN Len(clusters)
    ELSE Cardinality({i \in 1..driverCount :
                        (i - 1) * CeilDiv(Len(dayLocations), driverCount)
                            < Len(dayLocations)})

\* the distance and time computed locally for a stored route
LocalMetrics(route) ==
    LET d == calculateRouteDistance(route.stopsJson)
    IN <<d, estimateTime(d, Len(route.stopsJson) - 2)>>

\* C7: whatever the provider does per cluster, the run does not raise, ends
\* with one route per non-empty cluster or block, and a route whose provider
\* call failed carries the locally computed distance and time.
C7_AlwaysCompletes ==
    /\ pc # "raised"
    /\ pc = "done" => Len(routes) = ExpectedRoutes
    /\ \A r \in 1..Len(routes) :
         ProviderFailed(calls[r]) =>
            <<routes[r].totalDistance, routes[r].estimatedTime>>
                = LocalMetrics(routes[r])

\* C8: when the provider never answers a request, the adapter call eventually
\* returns null to the run all the same.
C8_HungResolves == (pc = "hung") ~> (pc = "assemble" /\ ~googleResult.ok)

\* C9: a route for which the adapter returned no result stores as its total
\* distance what calculateRouteDistance gives on the route's final stop list.
C9_FallbackDistance ==
    \A r \in 1..Len(routes) :
        ~calls[r].available =>
            routes[r].totalDistance = calculateRouteDistance(routes[r].stopsJson)

\* two routes stored after failed requests, the first with a measured,
\* positive distance
C9_Witness ==
    /\ Len(routes) = 2
    /\ calls[1].outcome = "called" /\ ~calls[1].available
    /\ routes[1].totalDistance # NULL /\ routes[1].totalDistance > 0
    /\ calls[2].outcome = "called" /\ ~calls[2].available

\* C10: on a list of at least two stops in which some consecutive pair has a
\* stop lacking latitude or longitude, calculateRouteDistance returns null.
C10_NullPropagation ==
    (/\ fn = "calculateRouteDistance" /\ Len(fnStops) >= 2
     /\ \E i \in 1..(Len(fnStops) - 1) :
          ~Located(fnStops[i]) \/ ~Located(fnStops[i + 1])) => fnOut = NULL

\* the first pair has coordinates and a distance, a later pair lacks one
C10_Witness ==
    /\ fn = "calculateRouteDistance" /\ Len(fnStops) >= 3
    /\ Located(fnStops[1]) /\ Located(fnStops[2]) /\ fnStops[1].lat # fnStops[2].lat
    /\ ~Located(fnStops[3])
    /\ fnOut = NULL

\* C11: a route whose metrics are computed locally stores, when its distance
\* d is a number (0 km included), the time round(d / 40 * 60) + 5 per delivery
\* stop, and 15 per delivery stop only when d is null.
C11_TimeEstimate ==
    \A r \in 1..Len(routes) :
        ~calls[r].available =>
            LET d == routes[r].totalDistance
                n == Len(routes[r].stopsJson) - 2
            IN routes[r].estimatedTime =
                  IF d # NULL THEN RoundDiv(3 * d, 20) + 5 * n ELSE 15 * n

\* the provider's call of the last stored route succeeded: a response with a
\* first route that has a distance, a duration and a valid index list
LastCallSucceeded ==
    /\ pc \in {"loop", "done"} /\ Len(routes) >= 1
    /\ calls[Len(routes)].outcome = "called"
    /\ ~ProviderFailed(calls[Len(routes)])

\* C12: after a successful provider call the route stores its deliveries in
\* the order the provider returned, numbered from 2, with the provider's
\* distance (meters / 1000 to one decimal) and time (ceiling of seconds / 60).
C12_AdoptsProviderResult ==
    LastCallSucceeded =>
        LET r == Len(routes)
            first == calls[r].resp.routes[1]
            given == sliceInner(candidate)
            stored == sliceInner(routes[r].stopsJson)
        IN /\ Len(stored) = Len(given)
           /\ \A j \in 1..Len(stored) :
                /\ stored[j].locationId = given[first.index.list[j] + 1].locationId
                /\ stored[j].sequence = j + 1
           /\ routes[r].totalDistance = RoundDiv(first.distanceMeters, 100)
           /\ routes[r].estimatedTime = CeilDiv(first.duration, 60)

\* two deliveries returned as [1, 0]: stored swapped with sequences 2 and 3,
\* 1.2 km and 2 minutes from the provider, which the local estimate is not
C12_Witness ==
    /\ LastCallSucceeded /\ pc = "done"
    /\ calls[Len(routes)].resp.routes[1].index.list = <<1, 0>>
    /\ LET stops == routes[Len(routes)].stopsJson
       IN /\ Len(stops) = 4
          /\ stops[2].locationId = candidate[3].locationId
          /\ stops[3].locationId = candidate[2].locationId
          /\ stops[2].locationId # stops[3].locationId
          /\ stops[2].sequence = 2 /\ stops[3].sequence = 3
          /\ routes[Len(routes)].totalDistance = 12
          /\ routes[Len(routes)].estimatedTime = 2
          /\ calculateRouteDistance(stops) # 12

\* C13: the adapter sends a request exactly when an API key is configured,
\* the list has at least two stops and every stop has both coordinates; when
\* one of these fails it returns null and the provider is not contacted.
C13_RequestPreconditions ==
    /\ fn = "optimizeRouteWithGoogle" =>
          /\ fnOut.sent <=>
                /\ fnOut.key
                /\ Len(fnStops) >= 2
                /\ \A i \in 1..Len(fnStops) : Located(fnStops[i])
          /\ ~fnOut.sent => (~fnOut.result.ok /\ fnOut.resp = NoResponse)
    /\ pc \in {"fetch", "hung"} =>
          /\ apiKey
          /\ Len(candidate) >= 2
          /\ \A i \in 1..Len(candidate) :
                candidate[i].lat # NULL /\ candidate[i].lng # NULL
    /\ \A r \in 1..Len(calls) :
          calls[r].outcome \in {"noKey", "tooFew", "noCoords", "notCalled"} =>
             (calls[r].resp = NoResponse /\ ~calls[r].available)

\* with a key, a list whose last stop lacks a coordinate is not sent
C13_Witness ==
    /\ fn = "optimizeRouteWithGoogle" /\ fnOut.key /\ ~fnOut.sent
    /\ Len(fnStops) = 3
    /\ Located(fnStops[1]) /\ Located(fnStops[2]) /\ ~Located(fnStops[3])
    /\ ~fnOut.result.ok

\* C14: for a list with no stop between its first and its last, the request
\* asks for no waypoint optimization (it names no intermediates), and a
\* result has the stops in the order given.
C14_NoIntermediatesSkips ==
    (fn = "optimizeRouteWithGoogle" /\ fnOut.sent /\ Len(fnStops) = 2) =>
        /\ ~fnOut.request.optimizeWaypointOrder
        /\ fnOut.request.intermediates = <<>>
        /\ fnOut.result.ok =>
              /\ Len(fnOut.result.optimizedStops) = 2
              /\ \A i \in 1..2 :
                    fnOut.result.optimizedStops[i].locationId = fnStops[i].id

\* two stops, sent, answered with a route: the result keeps the two stops
C14_Witness ==
    /\ fn = "optimizeRouteWithGoogle" /\ fnOut.sent /\ Len(fnStops) = 2
    /\ fnOut.result.ok /\ ~fnOut.request.optimizeWaypointOrder
    /\ fnOut.result.optimizedStops[1].locationId = 1
    /\ fnOut.result.optimizedStops[2].locationId = 2

\* ceil(n / k): the least c with c * k >= n
CeilOf(n, k) == CHOOSE c \in 0..n : c * k >= n /\ (c = 0 \/ (c - 1) * k < n)

\* the block of route i (i = 0, 1, ...) of n stops over k routes: the stops
\* at the indices [i * ceil(n/k), min((i + 1) * ceil(n/k), n)), from 0
BlockIndices(n, k, i) ==
    LET c == CeilOf(n, k)
    IN [j \in 1..(Min((i + 1) * c, n) - i * c) |-> i * c + j]

\* the ids of the locations of block i, in input order
BlockIds(locs, k, i) ==
    [j \in 1..Len(BlockIndices(Len(locs), k, i)) |->
        locs[BlockIndices(Len(locs), k, i)[j]].id]

\* the routes with a non-empty block
NonEmptyBlocks(n, k) == {i \in 0..(k - 1) : i * CeilOf(n, k) < n}

SomeUnlocated(locs) == \E i \in 1..Len(locs) : ~Located(locs[i])

\* the location ids of the deliveries of a bookended stop list
DeliveryIds(stops) ==
    [j \in 1..(Len(stops) - 2) |-> stops[j + 1].locationId]

\* C15: when a stop of the input lacks a coordinate there is no clustering
\* and route i is given the stops of block i in input order; only non-empty
\* blocks give a route.
C15_RoundRobinBlocks ==
    /\ (fn = "roundRobin" /\ SomeUnlocated(fnStops)) =>
          LET n == Len(fnStops)
          IN /\ Len(fnOut) = Cardinality(NonEmptyBlocks(n, fnK))
             /\ \A i \in NonEmptyBlocks(n, fnK) :
                   fnOut[i + 1] =
                      [j \in 1..Len(BlockIndices(n, fnK, i)) |->
                          fnStops[BlockIndices(n, fnK, i)[j]]]
    /\ (SomeUnlocated(dayLocations) /\ pc \notin {"off", "wait", "idle"}) =>
          LET n == Len(dayLocations)
          IN /\ clusters = <<>> /\ passes = 0
             /\ pc \in {"fetch", "hung", "assemble"} =>
                   DeliveryIds(candidate) = BlockIds(dayLocations, driverCount, ci - 1)
             /\ pc = "done" =>
                   Len(routes) = Cardinality(NonEmptyBlocks(n, driverCount))
             /\ \A r \in 1..Len(routes) :
                   ~calls[r].available =>
                      DeliveryIds(routes[r].stopsJson)
                         = BlockIds(dayLocations, driverCount, r - 1)

\* 4 stops over 3 drivers: blocks of ceil(4/3) = 2 and 2, no third block
C15_Witness ==
    /\ fn = "roundRobin" /\ SomeUnlocated(fnStops)
    /\ Len(fnStops) = 4 /\ fnK = 3
    /\ Len(fnOut) = 2
    /\ Len(fnOut[1]) = 2 /\ Len(fnOut[2]) = 2
    /\ fnOut[2][1].id = 3

C17_DraftUnassigned ==
    \A r \in 1..Len(routes) :
        /\ routes[r].status = "draft"
        /\ routes[r].driverId = NULL
        /\ routes[r].driverName = NULL
        /\ routes[r].stopCount = Len(routes[r].stopsJson)
        /\ routes[r].stopCount = Len(sliceInner(routes[r].stopsJson)) + 2

\* a stored route of two deliveries: stopCount 4
C17_Witness ==
    /\ Len(routes) >= 1
    /\ Len(sliceInner(routes[1].stopsJson)) = 2
    /\ routes[1].stopCount = 4
    /\ routes[1].status = "draft" /\ routes[1].driverId = NULL

\* the requests of the run the provider has not answered yet
InFlight == {r \in 1..Len(calls) : calls[r].outcome = "call"}

\* C18: the iterations of a run follow one another: at most one request is
\* open at any time, it belongs to the iteration after the last stored route,
\* and no step changes a route already stored, the clusters, or the record of
\* an earlier iteration's call.
C18_Sequential ==
    /\ [](/\ Cardinality(InFlight) <= 1
          /\ \A r \in InFlight : r = Len(calls) /\ Len(routes) = r - 1
          /\ Len(calls) - Len(routes) \in {0, 1})
    /\ [][(pc \in {"loop", "fetch", "hung", "assemble"}) =>
            (/\ Len(routes') >= Len(routes)
             /\ \A r \in 1..Len(routes) : routes'[r] = routes[r]
             /\ \A r \in 1..(Len(calls) - 1) : calls'[r] = calls[r]
             /\ clusters' = clusters)]_vars

\* a request open for the second cluster, the route of the first one stored
C18_Witness ==
    /\ pc = "fetch" /\ ci = 2 /\ Len(clusters) = 2
    /\ Len(routes) = 1 /\ InFlight = {2}

\* the segments of a text between its "/" parts
SlashAt(chars, k) ==
    IF k = 0 THEN 0
    ELSE LET at == {p \in 1..Len(chars) : chars[p] = "/"}
         IN IF k > Cardinality(at) THEN Len(chars) + 1
            ELSE CHOOSE p \in at : Cardinality({q \in at : q < p}) = k - 1

SplitSlash(chars) ==
    [k \in 1..(Cardinality({p \in 1..Len(chars) : chars[p] = "/"}) + 1) |->
        SubSeq(chars, SlashAt(chars, k - 1) + 1, SlashAt(chars, k) - 1)]

\* decodeURIComponent
PctDecode(segment) ==
    [i \in 1..Len(segment) |->
        CASE segment[i] = "%20" -> " "
          [] segment[i] = "%2F" -> "/"
          [] segment[i] = "%2C" -> ","
          [] OTHER -> segment[i]]

\* C20: the link of a stored route is the fixed prefix followed by one encoded
\* segment per stop of the stored list, in the list's order, joined by "/":
\* segment j decodes to the address of stop j, and no segment holds a raw
\* space or comma.
C20_MapLink ==
    \A r \in 1..Len(routes) :
        LET stops == routes[r].stopsJson
            link == routes[r].routeLink
            segments == SplitSlash(Tail(link))
        IN /\ Head(link) = "https://www.google.com/maps/dir/"
           /\ Len(segments) = Len(stops)
           /\ \A j \in 1..Len(stops) :
                /\ stops[j].address.defined =>
                      PctDecode(segments[j]) = stops[j].address.text
                /\ \A i \in 1..Len(segments[j]) : segments[j][i] \notin {" ", ","}

\* two deliveries the provider swapped: the link names the fallback depot,
\* stop 2, stop 1 and the depot again
C20_Witness ==
    /\ Len(routes) = 1 /\ ~warehouse.present
    /\ Len(routes[1].stopsJson) = 4
    /\ routes[1].stopsJson[2].locationId = 2
    /\ routes[1].stopsJson[3].locationId = 1
    /\ LET segments == SplitSlash(Tail(routes[1].routeLink))
       IN /\ Len(segments) = 4
          /\ segments[2] = <<"2", "%20", "A", "%2F", "B">>
          /\ segments[3] = <<"1", "%20", "A", "%2F", "B">>
          /\ PctDecode(segments[1]) = FallbackAddress
          /\ segments[4] = segments[1]

\* C19: a generate request answered with status 400 leaves the routes table
\* as it was when the request arrived: no row created, none deleted.
C19_RejectedLeavesTable ==
    (handler.pc = "responded" /\ handler.status = 400) => table = req.stored

\* the source location of a delivery stop of the run's input
SourceOf(stop) ==
    CHOOSE i \in 1..Len(dayLocations) : dayLocations[i].id = stop.locationId

\* the depot-to-depot length of a stop list measured on the coordinates the
\* input locations carry
SourceDistance(stops) ==
    calculateRouteDistance(
        [j \in 1..Len(stops) |->
            IF j \in 2..(Len(stops) - 1)
            THEN [stops[j] EXCEPT !.lat = dayLocations[SourceOf(stops[j])].lat,
                                  !.lng = dayLocations[SourceOf(stops[j])].lng]
            ELSE stops[j]])

\* C21: when every stop of the input has both coordinates (the value 0
\* included) and the adapter returned no result for a route, the route's
\* total distance is not null and is the rounded Haversine sum over depot,
\* deliveries, depot, every delivery stop carrying the coordinates of its
\* source location unchanged.
C21_LocatedDistanceNotNull ==
    hasCoordinates(dayLocations) =>
        \A r \in 1..Len(routes) :
            ~calls[r].available =>
                /\ \A j \in 2..(Len(routes[r].stopsJson) - 1) :
                      LET stop == routes[r].stopsJson[j]
                      IN /\ stop.lat = dayLocations[SourceOf(stop)].lat
                         /\ stop.lng = dayLocations[SourceOf(stop)].lng
                /\ routes[r].totalDistance # NULL
                /\ routes[r].totalDistance = SourceDistance(routes[r].stopsJson)

\* the coordinates of a stop as a centroid
CoordsOf(loc) == [lat |-> Frac(loc.lat), lng |-> Frac(loc.lng)]

CentroidDistance(loc, centroid) ==
    calculateHaversineDistance(Frac(loc.lat), Frac(loc.lng),
                               centroid.lat, centroid.lng)

\* assignment a (0-based centroid indices) puts every stop with a centroid at
\* minimal distance, the lowest index among equals
NearestLowest(valid, centroids, a) ==
    \A i \in 1..Len(valid) :
        /\ a[i] \in 0..(Len(centroids) - 1)
        /\ \A c \in 0..(Len(centroids) - 1) :
              /\ ~FracLess(CentroidDistance(valid[i], centroids[c + 1]),
                           CentroidDistance(valid[i], centroids[a[i] + 1]))
              /\ c < a[i] =>
                    FracLess(CentroidDistance(valid[i], centroids[a[i] + 1]),
                             CentroidDistance(valid[i], centroids[c + 1]))

\* groups is the grouping of valid by assignment a: one group per centroid
\* index in use, in index order, its members in input order
GroupingOf(valid, a, groups) ==
    LET used == {a[i] : i \in 1..Len(valid)}
    IN /\ Len(groups) = Cardinality(used)
       /\ \A g \in 1..Len(groups) :
             \E c \in used :
                /\ Cardinality({d \in used : d < c}) = g - 1
                /\ groups[g] = SelectSeq(valid,
                                  LAMBDA loc :
                                     \E i \in 1..Len(valid) :
                                        valid[i] = loc /\ a[i] = c)

\* the loop performed at most 20 passes, and its result is the grouping of
\* the last pass, every stop with its nearest centroid, lowest index first
C23_LastPassGrouping ==
    (fn = "kMeansClustering" /\ fnK >= 1 /\ fnK < Len(LocatedOf(fnStops))) =>
        LET valid == LocatedOf(fnStops)
            p == fnOut.passes
        IN /\ p \in 1..maxIterations /\ Len(fnOut.history) = p
           /\ NearestLowest(valid, fnOut.centroids, fnOut.history[p])
           /\ GroupingOf(valid, fnOut.history[p], fnOut.clusters)

\* C23: kMeansClustering performs at most 20 assignment passes, stops at the
\* first pass whose assignment equals that of the pass before it, and returns
\* the grouping of the last pass performed, in which every stop is with a
\* centroid at minimal distance, ties going to the lowest centroid index.
C23_StopsWhenUnchanged ==
    (fn = "kMeansClustering" /\ fnK >= 1 /\ fnK < Len(LocatedOf(fnStops))) =>
        LET h == fnOut.history
            p == fnOut.passes
        IN /\ C23_LastPassGrouping
           /\ p = maxIterations \/ (p >= 2 /\ h[p] = h[p - 1])
           /\ \A q \in 2..(p - 1) : h[q] # h[q - 1]

\* the position of a stop in a list of distinct stops
PositionIn(list, loc) == CHOOSE i \in 1..Len(list) : list[i] = loc

\* the distance between two stops
StopDistance(a, b) ==
    calculateHaversineDistance(Frac(a.lat), Frac(a.lng), Frac(b.lat), Frac(b.lng))

\* C24: nearestNeighborOrdering returns a permutation of its input that
\* starts with the input's first stop and in which every later stop is, among
\* the stops not placed before it, at minimal distance from its predecessor,
\* the earliest of the input order among equals; an input of at most one stop
\* is returned unchanged.
C24_GreedyWalk ==
    fn = "nearestNeighborOrdering" =>
        /\ Len(fnOut) = Len(fnStops)
        /\ \A i \in 1..Len(fnStops) : Count(fnOut, fnStops[i]) = 1
        /\ Len(fnStops) <= 1 => fnOut = fnStops
        /\ Len(fnStops) >= 1 => fnOut[1] = fnStops[1]
        /\ \A j \in 2..Len(fnOut) :
              \A m \in j..Len(fnOut) :
                 /\ ~FracLess(StopDistance(fnOut[j - 1], fnOut[m]),
                              StopDistance(fnOut[j - 1], fnOut[j]))
                 /\ PositionIn(fnStops, fnOut[m]) < PositionIn(fnStops, fnOut[j])
                       => FracLess(StopDistance(fnOut[j - 1], fnOut[j]),
                                   StopDistance(fnOut[j - 1], fnOut[m]))

\* three stops after the first, two of them equally near it: the walk takes
\* the earlier of the two, then reorders the rest
C24_Witness ==
    /\ fn = "nearestNeighborOrdering" /\ Len(fnStops) = 4
    /\ fnStops[1].lat = 1 /\ fnStops[2].lat = 2
    /\ fnStops[3].lat = 2 /\ fnStops[4].lat = 0
    /\ fnOut = <<fnStops[1], fnStops[2], fnStops[3], fnStops[4]>>

\* the stops between the two depot stops of every stored route, in order
AllDeliveries ==
    Flatten([r \in 1..Len(routes) |->
                SubSeq(routes[r].stopsJson, 2, Len(routes[r].stopsJson) - 1)])

\* C25: whatever path the run takes and whatever the provider answers, each
\* stop of the input is a delivery stop of exactly one created route, once,
\* when the run is done, and every delivery stop of a created route refers to
\* a stop of the input.
C25_StopsConserved ==
    LET ids == [j \in 1..Len(AllDeliveries) |-> AllDeliveries[j].locationId]
    IN /\ \A j \in 1..Len(ids) :
             \E i \in 1..Len(dayLocations) : dayLocations[i].id = ids[j]
       /\ pc = "done" =>
             \A i \in 1..Len(dayLocations) : Count(ids, dayLocations[i].id) = 1

\* the number of stops with the given id in a stop list
CountId(stops, id) == Cardinality({i \in 1..Len(stops) : stops[i].id = id})

\* C26: after a move-stop request answered with success, the moved stop is in
\* the target route exactly once and nowhere else in the two routes, every
\* other stop the two routes had is still in its route exactly once, and each
\* of the two stored routes carries the sequence numbers 1..count and a
\* stopCount equal to the length of its list; also when source and target are
\* the same route.
C26_MoveKeepsStops ==
    (move.pc = "responded" /\ move.status = 200) =>
        LET f == move.body.fromRouteId
            t == move.body.toRouteId
        IN /\ CountId(routeRows[t].stopsJson, move.body.stopId) = 1
           /\ f # t => CountId(routeRows[f].stopsJson, move.body.stopId) = 0
           /\ \A r \in {f, t} :
                /\ \A i \in 1..Len(move.found[r].stopsJson) :
                      LET id == move.found[r].stopsJson[i].id
                      IN id # move.body.stopId =>
                            /\ CountId(routeRows[r].stopsJson, id) = 1
                            /\ \A o \in {f, t} \ {r} :
                                  CountId(routeRows[o].stopsJson, id) = 0
                /\ \A i \in 1..Len(routeRows[r].stopsJson) :
                      routeRows[r].stopsJson[i].sequence = i
                /\ routeRows[r].stopCount = Len(routeRows[r].stopsJson)

\* C27: however the assign, publish-all, unpublish-all and unpublish-one
\* handlers interleave, a stored route is a draft exactly when it has no
\* driver: no route is "assigned" or "published" with driverId null.
C27_DraftIffNoDriver ==
    \A r \in DOMAIN fleet :
        (fleet[r].status = "draft") <=> (fleet[r].driverId = NULL)

\* the location ids of the deliveries of all stored routes of the date
StoredDeliveries ==
    Flatten([i \in 1..Len(dateRoutes) |->
                IF dateRoutes[i].date = ConcDate THEN dateRoutes[i].deliveries
                ELSE <<>>])

\* C28: when two generate requests for the same date have both completed, the
\* routes stored for the date are those of exactly one of them: every eligible
\* stop is a delivery of exactly one stored route of the date.
C28_OneGenerationStored ==
    (\A p \in {1, 2} : gens.procs[p].pc = "responded") =>
        /\ \E p \in {1, 2} :
              \A i \in 1..Len(dateRoutes) : dateRoutes[i].owner = p
        /\ \A i \in 1..Len(gens.locations) :
              Count(StoredDeliveries, gens.locations[i].id) = 1

\* the latest authenticated connection of a user, 0 if there is none
NewestOf(userId) ==
    LET own == {c \in 1..Len(conns) :
                   conns[c].authenticated /\ conns[c].user.userId = userId}
    IN IF own = {} THEN 0 ELSE CHOOSE c \in own : \A d \in own : d <= c

\* C29: whatever connection, close and heartbeat events have happened, a user
\* whose latest authenticated connection is open is in the clients map with
\* that connection, can be sent to, and is in adminClients if an admin: the
\* close event of an older connection does not remove the newer registration.
C29_OpenIsRegistered ==
    \A u \in WsUsers :
        LET c == NewestOf(u.userId)
        IN (c # 0 /\ conns[c].state = "open") =>
              /\ u.userId \in DOMAIN clients
              /\ clients[u.userId] = c
              /\ canSendTo(u.userId)
              /\ u.role = "admin" => u.userId \in adminClients

\* C30: once the cleanup of the hook has run, no reconnect timer is pending
\* and the hook creates no further WebSocket, whether the socket's close event
\* came before the cleanup or comes after it.
C30_NoReconnectAfterCleanup ==
    /\ [](hook.phase = "unmounted" => hook.timers = {})
    /\ [][(hook.phase = "unmounted") => (Len(sockets') = Len(sockets))]_vars

====
